---- MODULE Spec2Model ----
(***************************************************************************)
(* Model of the client-side data layer of the song player:                 *)
(*   - useAuth (src/hooks/useAuth.ts): reconciliation of the session       *)
(*     identity with the identity persisted in localStorage;               *)
(*   - useSupabaseData (src/hooks/useSupabaseData.ts): the songs and       *)
(*     liked-songs caches, the two personalization functions and the       *)
(*     listening-time tracker (recordListeningHistory /                    *)
(*     stopCurrentSongTracking).                                           *)
(* Every async function is cut at its awaits: one action runs from the     *)
(* invocation (or from the settlement of the awaited call) to the next     *)
(* await or to the return.  React state (useState) is only visible to a    *)
(* handler as the value of the last committed render; a ref (useRef) is    *)
(* visible at once.                                                        *)
(***************************************************************************)
EXTENDS Integers, Sequences, FiniteSets, TLC

VARIABLES
    \* ---- shared -------------------------------------------------------
    storage,               \* localStorage['musicapp_user']: the persisted user id, or NoUser
    \* ---- useSupabaseData: identity and tracker ------------------------
    propUser,              \* the `user` argument of useSupabaseData (id, or NoUser for null)
    now,                   \* wall clock, Date.getTime() in milliseconds
    currentSongRef,        \* currentSongRef.current: a song id string, or NoSong
    currentSongStartTime,  \* currentSongStartTime as seen by the handlers of the last render
    startTimeUpdate,       \* queued setCurrentSongStartTime update, not yet rendered
    trackerCalls,          \* start/stop invocations suspended at an await (a set of records)
    flushLog,              \* the upsert_history_minutes calls issued so far
    dbHistory,             \* remote history table: song -> minutes listened (hundredths)
    dbLastSong,            \* remote users.last_song_file_id (0: not set)
    observed,              \* what the latest start/stop invocation read from the tracker state
    opCount,               \* number of start/stop invocations so far
    \* ---- useAuth ------------------------------------------------------
    user,                  \* session user (id, or NoUser for null)
    localUserData,         \* in-memory copy of the persisted identity (id, or NoUser)
    loading,               \* useAuth's loading flag
    mounted,               \* the effect's `mounted` flag
    localData,             \* the effect's `localData`: localStorage as read when it started
    sessionPromise,        \* supabase.auth.getSession(): pending, or what it settled with
    timer,                 \* the 8000 ms timeout of the session check: "armed" or "fired"
    dbProfiles,            \* remote users table: ids whose profile was upserted
    signOutPending,        \* signOut() is awaiting supabase.auth.signOut()
    signInPending,         \* signInWithGoogle() is awaiting signInWithOAuth()
    authStep,              \* the latest useAuth handler that ran, with its input
    interfered,            \* a notification or a signOut() was handled
    loadingCleared,        \* loading has been false at least once
    \* ---- useSupabaseData: caches and personalization ------------------
    dbSongs,               \* remote songs table, in the order select('*') returns it
    dbLiked,               \* remote liked_songs table: user id -> set of song file ids
    songsCache,            \* songsCache.current: [has, val]; has = FALSE stands for null
    likedSongsCache,       \* likedSongsCache.current: [has, val]
    likedCacheOwner,       \* the user id whose liked_songs query filled likedSongsCache
    persCalls,             \* personalization calls suspended at an await (a set of records)
    persResult,            \* what the latest personalization call to return has returned
    persCount,             \* number of personalization calls so far
    dataLoading,           \* useSupabaseData's loading flag
    loadsInFlight,         \* loadData runs awaiting their Promise.all
    \* ---- useSupabaseData: the views and their mutations ---------------
    songs,                 \* useState songs (the hook's allSongs)
    personalizedSongs,     \* useState personalizedSongs
    trendingSongs,         \* useState trendingSongs
    lastPlayedSong,        \* useState lastPlayedSong: << >> for null, or <<song>>
    likedSongs,            \* useState likedSongs: a set of song file ids
    playlists,             \* useState playlists
    recentlyPlayedSongs,   \* useState recentlyPlayedSongs
    dbPlaylists,           \* remote playlists with their playlist_songs rows
    viewCalls,             \* fetches, loadData runs and mutations suspended at an await
    viewCount,             \* number of loadData, refreshData and mutation invocations so far
    viewStep,              \* the latest step of a fetch, a loadData or a mutation
    lastToggle             \* the latest toggleLike to return: the views before and after

trackerVars == <<now, currentSongRef, currentSongStartTime, startTimeUpdate,
                 trackerCalls, flushLog, dbHistory, dbLastSong, observed, opCount>>

authVars == <<user, localUserData, loading, mounted, localData, sessionPromise, timer,
              dbProfiles, signOutPending, signInPending, authStep, interfered, loadingCleared>>

dataVars == <<dbSongs, dbLiked, songsCache, likedSongsCache, likedCacheOwner, persCalls,
              persResult, persCount, dataLoading, loadsInFlight>>

viewVars == <<songs, personalizedSongs, trendingSongs, lastPlayedSong, likedSongs, playlists,
              recentlyPlayedSongs, dbPlaylists, viewCalls, viewCount, viewStep, lastToggle>>

vars == <<storage, propUser, trackerVars, authVars, dataVars, viewVars>>

\* What the actions of each part leave alone.
notTracker == <<storage, authVars, dataVars, viewVars>>
notAuth == <<propUser, trackerVars, dataVars, viewVars>>
notData == <<storage, trackerVars, authVars, viewVars>>
notViews == <<storage, trackerVars, authVars, songsCache, likedSongsCache, likedCacheOwner,
              persCalls, persResult, persCount>>

----------------------------------------------------------------------------
(* Values *)

NoUser == 0
Users == {1, 2}

NoTime == -1
NoSong == << >>

\* Song file ids of the model; from 10 on the id string has two characters.
SongIds == 1..17

(* Number.prototype.toString / parseInt on non-negative integers: an id    *)
(* string is the sequence of its decimal digits.                           *)
RECURSIVE ToStr(_)
ToStr(n) == IF n < 10 THEN <<n>> ELSE Append(ToStr(n \div 10), n % 10)

RECURSIVE ParseInt(_)
ParseInt(s) == IF Len(s) = 1 THEN s[1]
               ELSE 10 * ParseInt(SubSeq(s, 1, Len(s) - 1)) + s[Len(s)]

SongIdStrings == {ToStr(n) : n \in SongIds}

\* The songs the player starts in the tracker's behaviours.
PlayedSongs == {ToStr(1), ToStr(12)}

----------------------------------------------------------------------------
(* Bounds *)

MaxTime == 10000       \* the clock stops advancing here (ms)
MaxOps == 3            \* start/stop invocations per behaviour
MaxPers == 2           \* personalization calls per behaviour
MaxLoads == 1           \* loadData runs in flight at the same time
MaxViewOps == 3        \* loadData runs and mutations per behaviour
MaxOverlap == 2        \* loadData runs of a behaviour with overlapping runs

\* Clock increments (ms).  Sums reach 6000 (the 0.1 minute threshold itself),
\* 6400 (0.1067 min, rounds up to 0.11) and 6800 (0.1133 min, rounds down).
TickSteps == {3000, 3400}

----------------------------------------------------------------------------
(* useSupabaseData.getUserId: the session user first, then localStorage *)
GetUserId == IF propUser # NoUser THEN propUser ELSE storage

----------------------------------------------------------------------------
(* Listening-time tracker: recordListeningHistory, stopCurrentSongTracking *)

ThresholdMs == 6000    \* minutesListened > 0.1, in milliseconds

\* Mutant: the minutes truncated instead of rounded.
TruncateMinutes(ms) == ms \div 600

\* Math.round(minutesListened * 100) / 100, as hundredths of a minute:
\* ms / 600 rounded to the nearest integer, halves up.
RoundMinutes(ms) == (ms + 300) \div 600

\* minutesListened = (endTime - currentSongStartTime) / (1000 * 60), kept in ms
MinutesListened(start) == now - start

\* The test of lines 909 and 954 on what the invocation can see.
SeesCurrentSong == currentSongRef # NoSong /\ currentSongStartTime # NoTime

\* Mutant: the guard written with >= instead of >.
AtLeastThreshold(ms) == ms >= ThresholdMs

\* minutesListened > 0.1 (lines 913, 958)
LongEnough(ms) == ms > ThresholdMs

\* The arguments of supabase.rpc('upsert_history_minutes', ...).
FlushOf(op) ==
    [song    |-> ParseInt(currentSongRef),
     minutes |-> RoundMinutes(MinutesListened(currentSongStartTime)),
     elapsed |-> MinutesListened(currentSongStartTime),
     by      |-> op]

Observation(op, s) ==
    [op |-> op, song |-> s, ref |-> currentSongRef, start |-> currentSongStartTime]

\* The remote accumulator: additive upsert keyed by song (one user per behaviour).
UpsertHistoryMinutes(f) == [dbHistory EXCEPT ![f.song] = @ + f.minutes]

\* Outcomes of an awaited remote call: it succeeds, or it returns an error / throws.
Outcomes == {"ok", "error"}

\* Lines 934-948: make s the current song; then the two best-effort remote writes.
\* updateLastSong(s) returns at once without a user id; its users.update either
\* takes effect or fails (o).  The write is applied when it is sent, and the view
\* counter of increment_song_views is not part of the state: nothing the tracker
\* reads depends on the settlement of either call.
SetCurrentSong(s, o) ==
    /\ currentSongRef' = s
    /\ startTimeUpdate' = [set |-> TRUE, val |-> now]
    /\ dbLastSong' = IF GetUserId # NoUser /\ o = "ok" THEN ParseInt(s) ELSE dbLastSong

\* recordListeningHistory(songId), lines 901-949, up to its first await.
RecordListeningHistory(s, o) ==
    /\ opCount < MaxOps
    /\ opCount' = opCount + 1
    /\ observed' = Observation("start", s)
    /\ IF GetUserId = NoUser
       THEN UNCHANGED <<currentSongRef, startTimeUpdate, trackerCalls, flushLog, dbLastSong>>
       ELSE IF SeesCurrentSong /\ LongEnough(MinutesListened(currentSongStartTime))
       THEN /\ flushLog' = Append(flushLog, FlushOf("start"))
            /\ trackerCalls' = trackerCalls \cup
                   { [id |-> opCount', op |-> "start", song |-> s, flush |-> FlushOf("start")] }
            /\ UNCHANGED <<currentSongRef, startTimeUpdate, dbLastSong>>
       ELSE /\ SetCurrentSong(s, o)
            /\ UNCHANGED <<flushLog, trackerCalls>>
    /\ UNCHANGED <<notTracker, propUser, now, currentSongStartTime, dbHistory>>

\* The upsert_history_minutes call of a start settles (lines 917-949).
StartFlushSettles(c, outcome, o) ==
    /\ c \in trackerCalls
    /\ c.op = "start"
    /\ dbHistory' = IF outcome = "ok" THEN UpsertHistoryMinutes(c.flush) ELSE dbHistory
    /\ SetCurrentSong(c.song, o)
    /\ trackerCalls' = trackerCalls \ {c}
    /\ UNCHANGED <<notTracker, propUser, now, currentSongStartTime, flushLog, observed, opCount>>

\* Lines 979-980.
ClearCurrentSong ==
    /\ currentSongRef' = NoSong
    /\ startTimeUpdate' = [set |-> TRUE, val |-> NoTime]

\* stopCurrentSongTracking(), lines 952-982, up to its await (or to its end).
StopCurrentSongTracking ==
    /\ opCount < MaxOps
    /\ opCount' = opCount + 1
    /\ observed' = Observation("stop", NoSong)
    /\ IF SeesCurrentSong /\ GetUserId # NoUser
          /\ LongEnough(MinutesListened(currentSongStartTime))
       THEN /\ flushLog' = Append(flushLog, FlushOf("stop"))
            /\ trackerCalls' = trackerCalls \cup
                   { [id |-> opCount', op |-> "stop", song |-> NoSong, flush |-> FlushOf("stop")] }
            /\ UNCHANGED <<currentSongRef, startTimeUpdate>>
       ELSE /\ ClearCurrentSong
            /\ UNCHANGED <<flushLog, trackerCalls>>
    /\ UNCHANGED <<notTracker, propUser, now, currentSongStartTime, dbHistory, dbLastSong>>

\* The upsert_history_minutes call of a stop settles (lines 962-982).
StopFlushSettles(c, outcome) ==
    /\ c \in trackerCalls
    /\ c.op = "stop"
    /\ dbHistory' = IF outcome = "ok" THEN UpsertHistoryMinutes(c.flush) ELSE dbHistory
    /\ ClearCurrentSong
    /\ trackerCalls' = trackerCalls \ {c}
    /\ UNCHANGED <<notTracker, propUser, now, currentSongStartTime, flushLog, dbLastSong,
                   observed, opCount>>

\* React commits the queued setCurrentSongStartTime: the handlers of the next
\* render close over the new value.
Render ==
    /\ startTimeUpdate.set
    /\ currentSongStartTime' = startTimeUpdate.val
    /\ startTimeUpdate' = [set |-> FALSE, val |-> NoTime]
    /\ UNCHANGED <<notTracker, propUser, now, currentSongRef, trackerCalls, flushLog,
                   dbHistory, dbLastSong, observed, opCount>>

\* Time passes.  A queued state update is rendered before the clock moves on:
\* only handlers that run in the same instant can miss it.
Tick(d) ==
    /\ now + d <= MaxTime
    /\ ~startTimeUpdate.set
    /\ now' = now + d
    /\ UNCHANGED <<notTracker, propUser, currentSongRef, currentSongStartTime, startTimeUpdate,
                   trackerCalls, flushLog, dbHistory, dbLastSong, observed, opCount>>

\* The tracker of a hook that has just mounted, over the given remote history
\* and last played song.
InitTrackerOver(pu, history, lastSong) ==
    /\ propUser = pu
    /\ now = 0
    /\ currentSongRef = NoSong
    /\ currentSongStartTime = NoTime
    /\ startTimeUpdate = [set |-> FALSE, val |-> NoTime]
    /\ trackerCalls = {}
    /\ flushLog = << >>
    /\ dbHistory = history
    /\ dbLastSong = lastSong
    /\ observed = [op |-> "none", song |-> NoSong, ref |-> NoSong, start |-> NoTime]
    /\ opCount = 0

InitTrackerVars(pu) == InitTrackerOver(pu, [n \in SongIds |-> 0], 0)

TrackerStep ==
    \/ \E s \in PlayedSongs, o \in Outcomes : RecordListeningHistory(s, o)
    \/ \E c \in trackerCalls, o1, o2 \in Outcomes : StartFlushSettles(c, o1, o2)
    \/ StopCurrentSongTracking
    \/ \E c \in trackerCalls, o \in Outcomes : StopFlushSettles(c, o)
    \/ Render
    \/ \E d \in TickSteps : Tick(d)

----------------------------------------------------------------------------
(* useAuth: session identity and persisted local identity *)

\* effectiveUser (lines 253-263): the session user first, then the local identity.
EffectiveUser == IF user # NoUser THEN user ELSE localUserData

\* isAuthenticated (line 272)
IsAuthenticated == localUserData # NoUser \/ user # NoUser

\* useAuth's getUserId (line 271): the local identity first, then the session user.
AuthGetUserId == IF localUserData # NoUser THEN localUserData ELSE user

\* Mutant: the identity kept in memory only, localStorage not written.
SaveInMemoryOnly(u) ==
    /\ localUserData' = u
    /\ UNCHANGED storage

\* saveLocalUserData (lines 35-43); the record written is derived from the user id.
SaveLocalUserData(u) ==
    /\ storage' = u
    /\ localUserData' = u

\* Mutant: the in-memory identity cleared, the localStorage record left behind.
ClearInMemoryOnly ==
    /\ localUserData' = NoUser
    /\ UNCHANGED storage

\* clearLocalUserData (lines 46-54)
ClearLocalUserData ==
    /\ storage' = NoUser
    /\ localUserData' = NoUser

PendingSession == [kind |-> "pending", user |-> NoUser]

\* What getSession() can settle with: a session of a user, no session, an error
\* in the result, or a rejection.
SessionResults ==
    {[kind |-> "session", user |-> u] : u \in Users}
        \cup {[kind |-> k, user |-> NoUser] : k \in {"none", "error", "reject"}}

\* The `if (error)` branch of getInitialSession (lines 83-99).
OnSessionError ==
    IF ~mounted THEN UNCHANGED <<storage, user, localUserData, loading>>
    ELSE IF localData # NoUser
    THEN /\ user' = NoUser
         /\ loading' = FALSE
         /\ UNCHANGED <<storage, localUserData>>
    ELSE /\ user' = NoUser
         /\ localUserData' = NoUser
         /\ loading' = FALSE
         /\ UNCHANGED storage

\* Mutant: the catch branch clears the local identity even when one was found.
OnSessionThrownClearsLocal ==
    IF ~mounted THEN UNCHANGED <<storage, user, localUserData, loading>>
    ELSE /\ user' = NoUser
         /\ localUserData' = NoUser
         /\ loading' = FALSE
         /\ UNCHANGED storage

\* Mutant: the catch branch forgets setLoading(false) when there is no local identity.
OnSessionThrownStaysLoading ==
    IF ~mounted THEN UNCHANGED <<storage, user, localUserData, loading>>
    ELSE IF localData # NoUser
    THEN /\ user' = NoUser
         /\ loading' = FALSE
         /\ UNCHANGED <<storage, localUserData>>
    ELSE /\ user' = NoUser
         /\ localUserData' = NoUser
         /\ UNCHANGED <<storage, loading>>

\* The catch branch of getInitialSession (lines 124-139): the timeout's rejection,
\* or a rejection of getSession() itself.
OnSessionThrown ==
    IF ~mounted THEN UNCHANGED <<storage, user, localUserData, loading>>
    ELSE IF localData # NoUser
    THEN /\ user' = NoUser
         /\ loading' = FALSE
         /\ UNCHANGED <<storage, localUserData>>
    ELSE /\ user' = NoUser
         /\ localUserData' = NoUser
         /\ loading' = FALSE
         /\ UNCHANGED storage

\* Lines 101-123: getSession() answered without error, with session user u or none.
OnSessionResult(u) ==
    IF ~mounted THEN UNCHANGED <<storage, user, localUserData, loading>>
    ELSE /\ IF u # NoUser
            THEN /\ user' = u
                 /\ SaveLocalUserData(u)
            ELSE IF localData = NoUser
            THEN /\ user' = NoUser
                 /\ localUserData' = NoUser
                 /\ UNCHANGED storage
            ELSE UNCHANGED <<storage, user, localUserData>>
         /\ loading' = FALSE

NextSeq == 1 - authStep.seq

\* Every useAuth step records whether loading has been false, and leaves the
\* rest of the application alone.
AuthFrame ==
    /\ loadingCleared' = (loadingCleared \/ ~loading')
    /\ UNCHANGED notAuth

\* Mutant: the answer of getSession() is handled even after the timeout has fired.
GetSessionHandledLate(r) ==
    /\ sessionPromise = PendingSession
    /\ sessionPromise' = r
    /\ authStep' = [seq |-> NextSeq, kind |-> r.kind, session |-> r.user,
                    live |-> mounted /\ timer = "armed"]
    /\ IF r.kind = "error" THEN OnSessionError
       ELSE IF r.kind = "reject" THEN OnSessionThrown
       ELSE OnSessionResult(r.user)
    /\ UNCHANGED <<mounted, localData, timer, dbProfiles, signOutPending, signInPending,
                   interfered>>
    /\ AuthFrame

\* getSession() settles.  Promise.race (lines 78-81) has already been decided if
\* the timeout fired first: the result is then dropped.
GetSessionSettles(r) ==
    /\ sessionPromise = PendingSession
    /\ sessionPromise' = r
    /\ authStep' = [seq |-> NextSeq, kind |-> r.kind, session |-> r.user,
                    live |-> mounted /\ timer = "armed"]
    /\ IF timer = "fired" THEN UNCHANGED <<storage, user, localUserData, loading>>
       ELSE IF r.kind = "error" THEN OnSessionError
       ELSE IF r.kind = "reject" THEN OnSessionThrown
       ELSE OnSessionResult(r.user)
    /\ UNCHANGED <<mounted, localData, timer, dbProfiles, signOutPending, signInPending,
                   interfered>>
    /\ AuthFrame

\* The setTimeout of line 75 fires: it rejects the race unless getSession() settled first.
TimeoutFires ==
    /\ timer = "armed"
    /\ timer' = "fired"
    /\ authStep' = [seq |-> NextSeq, kind |-> "timeout", session |-> NoUser,
                    live |-> mounted /\ sessionPromise = PendingSession]
    /\ IF sessionPromise = PendingSession THEN OnSessionThrown
       ELSE UNCHANGED <<storage, user, localUserData, loading>>
    /\ UNCHANGED <<mounted, localData, sessionPromise, dbProfiles, signOutPending,
                   signInPending, interfered>>
    /\ AuthFrame

\* The notifications the provider delivers: SIGNED_IN with a session, SIGNED_OUT
\* without one, and the other events (INITIAL_SESSION, TOKEN_REFRESHED, ...)
\* with or without a session.
AuthEvents ==
    {[event |-> "SIGNED_IN", session |-> u] : u \in Users}
        \cup {[event |-> "SIGNED_OUT", session |-> NoUser]}
        \cup {[event |-> "OTHER", session |-> u] : u \in Users \cup {NoUser}}

\* The onAuthStateChange callback (lines 146-193), while subscribed.  The profile
\* upsert of lines 176-184 is best-effort: it takes effect (o = "ok") or not.
AuthStateChange(e, o) ==
    /\ mounted
    /\ authStep' = [seq |-> NextSeq, kind |-> e.event, session |-> e.session, live |-> TRUE]
    /\ interfered' = TRUE
    /\ IF e.event = "SIGNED_OUT" \/ e.session = NoUser
       THEN /\ user' = NoUser
            /\ ClearLocalUserData
            /\ loading' = FALSE
            /\ UNCHANGED dbProfiles
       ELSE IF e.event = "SIGNED_IN"
       THEN /\ user' = e.session
            /\ loading' = FALSE
            /\ SaveLocalUserData(e.session)
            /\ dbProfiles' = IF o = "ok" THEN dbProfiles \cup {e.session} ELSE dbProfiles
       ELSE /\ user' = e.session
            /\ loading' = FALSE
            /\ UNCHANGED <<storage, localUserData, dbProfiles>>
    /\ UNCHANGED <<mounted, localData, sessionPromise, timer, signOutPending, signInPending>>
    /\ AuthFrame

\* The effect's cleanup (lines 196-200).
Unmount ==
    /\ mounted
    /\ mounted' = FALSE
    /\ authStep' = [seq |-> NextSeq, kind |-> "unmount", session |-> NoUser, live |-> FALSE]
    /\ UNCHANGED <<storage, user, localUserData, loading, localData, sessionPromise, timer,
                   dbProfiles, signOutPending, signInPending, interfered>>
    /\ AuthFrame

\* signOut() up to its await (lines 229-233).
SignOutInvoked ==
    /\ ~signOutPending
    /\ signOutPending' = TRUE
    /\ loading' = TRUE
    /\ authStep' = [seq |-> NextSeq, kind |-> "signOut", session |-> NoUser, live |-> FALSE]
    /\ UNCHANGED <<storage, user, localUserData, mounted, localData, sessionPromise, timer,
                   dbProfiles, signInPending, interfered>>
    /\ AuthFrame

\* supabase.auth.signOut() settles (lines 233-248): with or without an error in
\* its result the identity is cleared; if it throws only loading is reset.
SignOutSettles(o) ==
    /\ signOutPending
    /\ signOutPending' = FALSE
    /\ authStep' = [seq |-> NextSeq, kind |-> "signOutDone", session |-> NoUser,
                    live |-> o # "throw"]
    /\ interfered' = TRUE
    /\ IF o = "throw"
       THEN UNCHANGED <<storage, user, localUserData>>
       ELSE /\ ClearLocalUserData
            /\ user' = NoUser
    /\ loading' = FALSE
    /\ UNCHANGED <<mounted, localData, sessionPromise, timer, dbProfiles, signInPending>>
    /\ AuthFrame

\* signInWithGoogle() up to its await (lines 203-216).
SignInInvoked ==
    /\ ~signInPending
    /\ signInPending' = TRUE
    /\ loading' = TRUE
    /\ authStep' = [seq |-> NextSeq, kind |-> "signIn", session |-> NoUser, live |-> FALSE]
    /\ UNCHANGED <<storage, user, localUserData, mounted, localData, sessionPromise, timer,
                   dbProfiles, signOutPending, interfered>>
    /\ AuthFrame

\* signInWithOAuth() settles (lines 217-226): loading is reset only on failure.
SignInSettles(o) ==
    /\ signInPending
    /\ signInPending' = FALSE
    /\ authStep' = [seq |-> NextSeq, kind |-> "signInDone", session |-> NoUser, live |-> FALSE]
    /\ loading' = IF o = "ok" THEN loading ELSE FALSE
    /\ UNCHANGED <<storage, user, localUserData, mounted, localData, sessionPromise, timer,
                   dbProfiles, signOutPending, interfered>>
    /\ AuthFrame

\* The state once the effect of lines 56-201 has started: localStorage has been
\* read into localData and localUserData, the session check and its timeout are
\* pending, the subscription is in place.
InitAuthVars(persisted) ==
    /\ user = NoUser
    /\ localUserData = persisted
    /\ loading = TRUE
    /\ mounted = TRUE
    /\ localData = persisted
    /\ sessionPromise = PendingSession
    /\ timer = "armed"
    /\ dbProfiles = {}
    /\ signOutPending = FALSE
    /\ signInPending = FALSE
    /\ authStep = [seq |-> 0, kind |-> "init", session |-> NoUser, live |-> FALSE]
    /\ interfered = FALSE
    /\ loadingCleared = FALSE

AuthStep ==
    \/ \E r \in SessionResults : GetSessionSettles(r)
    \/ TimeoutFires
    \/ \E e \in AuthEvents, o \in Outcomes : AuthStateChange(e, o)
    \/ Unmount
    \/ SignOutInvoked
    \/ \E o \in {"ok", "error", "throw"} : SignOutSettles(o)
    \/ SignInInvoked
    \/ \E o \in Outcomes : SignInSettles(o)

----------------------------------------------------------------------------
(* useSupabaseData: the caches and the two personalization functions *)

\* Database rows of the songs table.  Tags are lower-case and distinct.
SongA == [file_id |-> 1, img_id |-> 101, artist |-> "X", language |-> "en",
          tags |-> {"rock"}, views |-> 100, likes |-> 10]
SongB == [file_id |-> 2, img_id |-> 102, artist |-> "Y", language |-> "en",
          tags |-> {"rock"}, views |-> 5, likes |-> 1]
SongC == [file_id |-> 12, img_id |-> 112, artist |-> "Z", language |-> "fr",
          tags |-> {"jazz"}, views |-> 50, likes |-> 50]
SongD == [file_id |-> 3, img_id |-> 103, artist |-> "X", language |-> "en",
          tags |-> {"rock", "jazz"}, views |-> 0, likes |-> 0]

\* The view and like counts the rows of the model carry.
Counts == <<0, 1, 5, 10, 50, 100>>

\* Further rows in English by artist W.  Rows 4 and 5 differ in their tags only.
Filler(i) ==
    [file_id |-> i, img_id |-> 100 + i, artist |-> "W", language |-> "en",
     tags |-> IF i % 2 = 1 THEN {"rock", "jazz"} ELSE {"rock"},
     views |-> IF i \in {4, 5} THEN 5 ELSE Counts[(i % 6) + 1],
     likes |-> IF i \in {4, 5} THEN 1 ELSE Counts[((i \div 2) % 6) + 1]]

\* Seventeen rows, sixteen of them in English: more candidates than either
\* personalization mode returns.
BigCatalog ==
    <<SongA, SongB, SongC, SongD>>
        \o [i \in 1..13 |-> Filler(IF i <= 8 THEN i + 3 ELSE i + 4)]

\* The songs tables a behaviour starts from.
Catalogs == { <<SongA, SongB, SongC>>, <<SongA, SongB, SongC, SongD>>, << >> }

\* The reference songs and exclusion sets handed to the personalization calls.
SeedSongs == {SongA, SongC, SongD}
Batches == { << >>, <<SongA>>, <<SongC, SongA>> }
\* Batches with a majority language, first song in it or not.
MajorityBatches == { <<SongA, SongC, SongD>>, <<SongC, SongA, SongD>> }
ExcludeSets == { {}, {ToStr(2)}, {ToStr(3), ToStr(12)} }

\* What the history query of getPersonalizedSongs returns: song -> minutes listened.
HistoryResults == { [n \in SongIds |-> 0], [n \in SongIds |-> IF n = 2 THEN 15 ELSE 0] }

\* The values Math.random() * 3 (seed mode) and Math.random() * 2 (batch mode)
\* take for the candidates of one call, in hundredths of a point.
SeedJitter == { [n \in SongIds |-> 0], [n \in SongIds |-> IF n \in {2, 3, 4} THEN 299 ELSE 0] }
BatchJitter == { [n \in SongIds |-> 0], [n \in SongIds |-> IF n \in {2, 3, 4} THEN 199 ELSE 0] }

\* 100 * Math.log(1 + n), rounded down, for the counts of the songs above.
Ln100(n) ==
    CASE n = 0 -> 0  [] n = 1 -> 69  [] n = 5 -> 179  [] n = 10 -> 239
      [] n = 50 -> 393  [] n = 100 -> 461
      \* like counts moved by increment_song_likes and decrement_song_likes
      [] n = 2 -> 109  [] n = 8 -> 219  [] n = 9 -> 230  [] n = 11 -> 248  [] n = 12 -> 256

Min(a, b) == IF a <= b THEN a ELSE b

\* convertDatabaseSong (lines 183-195)
ConvertDatabaseSong(dbSong, isLiked) ==
    [file_id |-> dbSong.file_id, img_id |-> dbSong.img_id, artist |-> dbSong.artist,
     language |-> dbSong.language, tags |-> dbSong.tags, views |-> dbSong.views,
     likes |-> dbSong.likes, id |-> ToStr(dbSong.file_id),
     image |-> <<"pexels-photo", dbSong.img_id>>, isLiked |-> isLiked]

\* Array.prototype.sort((a, b) => b.score - a.score): stable, by score descending.
RECURSIVE InsertByScore(_, _)
InsertByScore(sorted, e) ==
    IF sorted = << >> THEN <<e>>
    ELSE IF Head(sorted).score >= e.score
         THEN <<Head(sorted)>> \o InsertByScore(Tail(sorted), e)
         ELSE <<e>> \o sorted

\* Mutant: the candidates left in catalog order.
Unsorted(entries) == entries

RECURSIVE SortByScore(_)
SortByScore(entries) ==
    IF entries = << >> THEN << >>
    ELSE InsertByScore(SortByScore(SubSeq(entries, 1, Len(entries) - 1)),
                       entries[Len(entries)])

Slice(seq, k) == SubSeq(seq, 1, Min(k, Len(seq)))

\* Mutant: the language test of the seed filter left out.
SeedAvailableAnyLanguage(songsData, seed, listened) ==
    SelectSeq(songsData, LAMBDA song :
        /\ song.file_id # seed.file_id
        /\ ToStr(song.file_id) \notin listened)

\* getPersonalizedSongs, lines 404-420: the candidates of seed-song mode.
SeedAvailable(songsData, seed, listened) ==
    SelectSeq(songsData, LAMBDA song :
        /\ song.file_id # seed.file_id
        /\ ToStr(song.file_id) \notin listened
        /\ song.language = seed.language)

\* Mutant: a matching tag worth one point, less than the random term can add.
SeedScoreLightTags(song, seed, history, liked, rnd) ==
      100 * Cardinality(song.tags \cap seed.tags)
    + (IF song.artist = seed.artist THEN 2500 ELSE 0)
    + (IF song.language = seed.language THEN 1000 ELSE 0)
    + Min(200 * history[song.file_id], 2000)
    + 2 * Ln100(song.likes)
    + Ln100(song.views)
    + (IF song.file_id \in liked THEN 800 ELSE 0)
    + rnd

\* getPersonalizedSongs, lines 430-464: the score of a candidate, in hundredths.
SeedScore(song, seed, history, liked, rnd) ==
      1500 * Cardinality(song.tags \cap seed.tags)
    + (IF song.artist = seed.artist THEN 2500 ELSE 0)
    + (IF song.language = seed.language THEN 1000 ELSE 0)
    + Min(200 * history[song.file_id], 2000)
    + 2 * Ln100(song.likes)
    + Ln100(song.views)
    + (IF song.file_id \in liked THEN 800 ELSE 0)
    + rnd

\* getPersonalizedSongs, lines 430-469: scoredSongs, in the order of the candidates.
SeedScored(songsData, seed, listened, history, liked, rnd) ==
    LET available == SeedAvailable(songsData, seed, listened)
    IN  [i \in 1..Len(available) |->
           [song |-> ConvertDatabaseSong(available[i], available[i].file_id \in liked),
            score |-> SeedScore(available[i], seed, history, liked,
                                rnd[available[i].file_id])]]

\* getPersonalizedSongs, lines 404-480, once songs, history and liked set are at hand.
SeedRecommendations(songsData, seed, listened, history, liked, rnd) ==
    LET sorted == Slice(SortByScore(
                      SeedScored(songsData, seed, listened, history, liked, rnd)), 10)
    IN  [i \in 1..Len(sorted) |-> sorted[i].song]

\* getSmartPersonalizedSongs, lines 112-118: the candidates of history-batch mode;
\* the language filter is the language of the first listened song.
BatchAvailable(songsData, batch, excludeSongs) ==
    SelectSeq(songsData, LAMBDA song :
        /\ ToStr(song.file_id) \notin excludeSongs
        /\ song.language = batch[1].language)

\* getSmartPersonalizedSongs, lines 64-70 and 128-158: the score, in hundredths.
BatchScore(song, batch, liked, rnd) ==
    LET preferredTags == UNION {batch[i].tags : i \in 1..Len(batch)}
        preferredArtists == {batch[i].artist : i \in 1..Len(batch)}
        listenedLanguages == {batch[i].language : i \in 1..Len(batch)}
    IN    2500 * Cardinality(song.tags \cap preferredTags)
        + (IF song.artist \in preferredArtists THEN 3000 ELSE 0)
        + (IF song.language \in listenedLanguages THEN 1500 ELSE 0)
        + 2 * Ln100(song.likes)
        + Ln100(song.views)
        + (IF song.file_id \in liked THEN 1000 ELSE 0)
        + rnd

\* getSmartPersonalizedSongs, lines 128-163: scoredSongs, in the order of the candidates.
BatchScored(songsData, batch, excludeSongs, liked, rnd) ==
    LET available == BatchAvailable(songsData, batch, excludeSongs)
    IN  [i \in 1..Len(available) |->
           [song |-> ConvertDatabaseSong(available[i], available[i].file_id \in liked),
            score |-> BatchScore(available[i], batch, liked, rnd[available[i].file_id])]]

\* getSmartPersonalizedSongs, lines 110-174.
BatchRecommendations(songsData, batch, excludeSongs, liked, rnd) ==
    LET sorted == Slice(SortByScore(
                      BatchScored(songsData, batch, excludeSongs, liked, rnd)), 15)
    IN  [i \in 1..Len(sorted) |-> sorted[i].song]

NoHistory == [n \in SongIds |-> 0]

\* A call returns: `fetched` tells that it got past the songs query, `likedOwner`
\* whose liked_songs rows it scored with, `scored` the candidates with the scores
\* it gave them, `queries` the remote reads it issued, `warm` that both caches were
\* populated when it was invoked.
Returned(c, fetched, result, owner, scored) ==
    [mode |-> c.mode, userId |-> c.userId, batch |-> c.batch, exclude |-> c.exclude,
     fetched |-> fetched, likedOwner |-> owner, songs |-> result, scored |-> scored,
     history |-> c.history, queries |-> c.queries, warm |-> c.warm]

\* The recommendations of call c, given the liked set it uses.
Recommend(c, songsData, history, liked, rnd) ==
    IF c.mode = "seed"
    THEN SeedRecommendations(songsData, c.batch[1], c.exclude, history, liked, rnd)
    ELSE BatchRecommendations(songsData, c.batch, c.exclude, liked, rnd)

\* scoredSongs of call c.
Scored(c, songsData, history, liked, rnd) ==
    IF c.mode = "seed"
    THEN SeedScored(songsData, c.batch[1], c.exclude, history, liked, rnd)
    ELSE BatchScored(songsData, c.batch, c.exclude, liked, rnd)

Jitter(c) == IF c.mode = "seed" THEN SeedJitter ELSE BatchJitter

\* Mutant: the liked set queried even when it is cached.
LikedStepAlwaysFetches(c, songsData, history, rest) ==
    /\ persCalls' = rest \cup
          {[c EXCEPT !.pc = "liked", !.songsData = songsData, !.history = history,
                     !.queries = @ \cup {"liked"}]}
    /\ UNCHANGED persResult

\* The liked-set step (lines 95-108, 387-401) of call c with songs and history at
\* hand: with a cached liked set the call scores and returns, otherwise it
\* suspends at the liked_songs query.
LikedStep(c, songsData, history, rest) ==
    IF likedSongsCache.has
    THEN /\ \E rnd \in Jitter(c) :
               persResult' = Returned([c EXCEPT !.history = history], TRUE,
                   Recommend(c, songsData, history, likedSongsCache.val, rnd),
                   likedCacheOwner,
                   Scored(c, songsData, history, likedSongsCache.val, rnd))
         /\ persCalls' = rest
    ELSE /\ persCalls' = rest \cup
               {[c EXCEPT !.pc = "liked", !.songsData = songsData, !.history = history,
                          !.queries = @ \cup {"liked"}]}
         /\ UNCHANGED persResult

\* After the songs are at hand: seed mode queries the history (lines 372-385),
\* batch mode goes on to the liked set.
AfterSongs(c, songsData, rest) ==
    IF c.mode = "seed"
    THEN /\ persCalls' = rest \cup
               {[c EXCEPT !.pc = "history", !.songsData = songsData,
                          !.queries = @ \cup {"history"}]}
         /\ UNCHANGED persResult
    ELSE LikedStep(c, songsData, NoHistory, rest)

NewCall(mode, batch, exclude) ==
    [id |-> persCount + 1, mode |-> mode, userId |-> GetUserId, batch |-> batch,
     exclude |-> exclude, pc |-> "songs", songsData |-> << >>, history |-> NoHistory,
     queries |-> {}, warm |-> songsCache.has /\ likedSongsCache.has]

\* A personalization call up to its first await.  The caller passes the id of
\* the user it runs for, and awaits the call before it makes the next one.
\* getPersonalizedSongs(userId, currentSong, listenedSongs), lines 347-370.
GetPersonalizedSongs(seed, listened) ==
    /\ persCount < MaxPers
    /\ persCalls = {}
    /\ GetUserId # NoUser
    /\ persCount' = persCount + 1
    /\ LET c == NewCall("seed", <<seed>>, listened)
       IN  IF songsCache.has
           THEN AfterSongs(c, songsCache.val, persCalls)
           ELSE /\ persCalls' = persCalls \cup {[c EXCEPT !.queries = {"songs"}]}
                /\ UNCHANGED persResult
    /\ UNCHANGED <<notData, propUser, dbSongs, dbLiked, songsCache, likedSongsCache,
                   likedCacheOwner, dataLoading, loadsInFlight>>

\* getSmartPersonalizedSongs(userId, listenedSongsInBatch, excludeSongs), lines 49-93.
GetSmartPersonalizedSongs(batch, excludeSongs) ==
    /\ persCount < MaxPers
    /\ persCalls = {}
    /\ GetUserId # NoUser
    /\ persCount' = persCount + 1
    /\ LET c == NewCall("batch", batch, excludeSongs)
       IN  IF batch = << >>
           THEN /\ persResult' = Returned(c, FALSE, << >>, NoUser, << >>)
                /\ UNCHANGED persCalls
           ELSE IF songsCache.has
           THEN AfterSongs(c, songsCache.val, persCalls)
           ELSE /\ persCalls' = persCalls \cup {[c EXCEPT !.queries = {"songs"}]}
                /\ UNCHANGED persResult
    /\ UNCHANGED <<notData, propUser, dbSongs, dbLiked, songsCache, likedSongsCache,
                   likedCacheOwner, dataLoading, loadsInFlight>>

\* The songs query of a call settles (lines 79-93, 356-370).
SongsQuerySettles(c, outcome) ==
    /\ c \in persCalls
    /\ c.pc = "songs"
    /\ IF outcome = "error" \/ dbSongs = << >>
       THEN /\ persResult' = Returned(c, FALSE, << >>, NoUser, << >>)
            /\ persCalls' = persCalls \ {c}
            /\ UNCHANGED songsCache
       ELSE /\ songsCache' = [has |-> TRUE, val |-> dbSongs]
            /\ AfterSongs(c, dbSongs, persCalls \ {c})
    /\ UNCHANGED <<notData, propUser, dbSongs, dbLiked, likedSongsCache, likedCacheOwner,
                   persCount, dataLoading, loadsInFlight>>

\* The history query of getPersonalizedSongs settles (lines 374-385); an error
\* leaves the history map empty.
HistoryQuerySettles(c, h) ==
    /\ c \in persCalls
    /\ c.pc = "history"
    /\ LikedStep(c, c.songsData, h, persCalls \ {c})
    /\ UNCHANGED <<notData, propUser, dbSongs, dbLiked, songsCache, likedSongsCache,
                   likedCacheOwner, persCount, dataLoading, loadsInFlight>>

\* The liked_songs query of a call settles (lines 98-108, 391-401): the set built
\* from its rows (empty when the query failed) is cached and used.
LikedQuerySettles(c, outcome) ==
    /\ c \in persCalls
    /\ c.pc = "liked"
    /\ LET liked == IF outcome = "ok" THEN dbLiked[c.userId] ELSE {}
       IN  /\ likedSongsCache' = [has |-> TRUE, val |-> liked]
           /\ likedCacheOwner' = c.userId
           /\ \E rnd \in Jitter(c) :
                 persResult' = Returned(c, TRUE,
                     Recommend(c, c.songsData, c.history, liked, rnd), c.userId,
                     Scored(c, c.songsData, c.history, liked, rnd))
    /\ persCalls' = persCalls \ {c}
    /\ UNCHANGED <<notData, propUser, dbSongs, dbLiked, songsCache, persCount,
                   dataLoading, loadsInFlight>>

\* The `user` argument changes and the effect of lines 984-1024 runs loadData:
\* without a user id the caches are dropped and loading ends; with one, loading
\* starts and the three fetches are awaited.
UserChanges(u) ==
    /\ propUser' = u
    /\ IF (IF u # NoUser THEN u ELSE storage) = NoUser   \* getUserId() of the new render
       THEN /\ songsCache' = [has |-> FALSE, val |-> << >>]
            /\ likedSongsCache' = [has |-> FALSE, val |-> {}]
            /\ likedCacheOwner' = NoUser
            /\ dataLoading' = FALSE
            /\ UNCHANGED loadsInFlight
       ELSE /\ loadsInFlight < MaxLoads
            /\ loadsInFlight' = loadsInFlight + 1
            /\ dataLoading' = TRUE
            /\ UNCHANGED <<songsCache, likedSongsCache, likedCacheOwner>>
    /\ UNCHANGED <<notData, dbSongs, dbLiked, persCalls, persResult, persCount>>

\* The Promise.all of a loadData settles (lines 1006-1020): finally, loading ends.
LoadDataSettles ==
    /\ loadsInFlight > 0
    /\ loadsInFlight' = loadsInFlight - 1
    /\ dataLoading' = FALSE
    /\ UNCHANGED <<notData, propUser, dbSongs, dbLiked, songsCache, likedSongsCache,
                   likedCacheOwner, persCalls, persResult, persCount>>

InitDataVars(catalog) ==
    /\ dbSongs = catalog
    /\ dbLiked = [u \in Users |-> IF u = 1 THEN {2, 12} ELSE {3}]
    /\ songsCache = [has |-> FALSE, val |-> << >>]
    /\ likedSongsCache = [has |-> FALSE, val |-> {}]
    /\ likedCacheOwner = NoUser
    /\ persCalls = {}
    /\ persResult = [mode |-> "none", userId |-> NoUser, batch |-> << >>, exclude |-> {},
                     fetched |-> FALSE, likedOwner |-> NoUser, songs |-> << >>,
                     scored |-> << >>, history |-> NoHistory, queries |-> {},
                     warm |-> FALSE]
    /\ persCount = 0
    /\ dataLoading = TRUE
    /\ loadsInFlight = 0

\* The personalization calls, with their arguments drawn from the given sets.
PersonalizationStep(seeds, batches, excludes) ==
    \/ \E seed \in seeds, listened \in excludes : GetPersonalizedSongs(seed, listened)
    \/ \E batch \in batches, ex \in excludes : GetSmartPersonalizedSongs(batch, ex)
    \/ \E c \in persCalls, o \in Outcomes : SongsQuerySettles(c, o)
    \/ \E c \in persCalls, h \in HistoryResults : HistoryQuerySettles(c, h)
    \/ \E c \in persCalls, o \in Outcomes : LikedQuerySettles(c, o)

\* Under changes of the user the calls take few arguments: what matters there is
\* whose data the caches hold, not what is recommended.
DataStep ==
    \/ PersonalizationStep({SongA}, {<< >>, <<SongA>>}, {{}, {ToStr(2)}})
    \/ \E u \in Users \cup {NoUser} : UserChanges(u)
    \/ LoadDataSettles

----------------------------------------------------------------------------
(* useSupabaseData: the views, loadData and its three fetches *)

\* The placeholder cover of a playlist without songs (lines 586 and 711).
DefaultImage == <<"pexels-photo", 1763075>>

\* Array.prototype.sort((a, b) => Key(b) - Key(a)): stable, by key descending.
OrderDesc(seq, Key(_)) ==
    LET entries == [i \in 1..Len(seq) |-> [song |-> seq[i], score |-> Key(seq[i])]]
        sorted == SortByScore(entries)
    IN  [i \in 1..Len(seq) |-> sorted[i].song]

\* .from('songs').select('*').order('views', { ascending: false }), lines 210-213
SongsByViews == OrderDesc(dbSongs, LAMBDA row : row.views)

\* The songs row joined to a history or playlist_songs row: songs(*).
JoinedSongs(n) == SelectSeq(dbSongs, LAMBDA row : row.file_id = n)

\* .from('history') ... .order('minutes_listened', { ascending: false }), lines
\* 238-242 and 500-508: the rows of the user, each with its joined song.
HistoryRows ==
    LET ids == SelectSeq([n \in SongIds |-> n], LAMBDA n : dbHistory[n] > 0)
        rows == [i \in 1..Len(ids) |->
                    [song_id |-> ids[i], minutes_listened |-> dbHistory[ids[i]],
                     songs |-> JoinedSongs(ids[i])]]
    IN  OrderDesc(rows, LAMBDA row : row.minutes_listened)

\* Lines 251-275.  The rows of the model carry fewer than five distinct tags and
\* artists, so that slice(0, 5) keeps every tag and artist of the top history.
TopHistory(hist) == SelectSeq(Slice(hist, 15), LAMBDA h : h.songs # << >>)
CommonTags(hist) ==
    UNION {TopHistory(hist)[i].songs[1].tags : i \in 1..Len(TopHistory(hist))}
CommonArtists(hist) ==
    {TopHistory(hist)[i].songs[1].artist : i \in 1..Len(TopHistory(hist))}

\* Line 280
HistorySongIds(hist) == {ToStr(hist[i].song_id) : i \in 1..Len(hist)}

\* Lines 283-285
ConvertedSongs(songsData, liked) ==
    [i \in 1..Len(songsData) |-> ConvertDatabaseSong(songsData[i], songsData[i].file_id \in liked)]

\* Lines 293-305, in points
HistoryScore(song, hist) ==
    Cardinality(song.tags \cap CommonTags(hist)) * 10
        + (IF song.artist \in CommonArtists(hist) THEN 20 ELSE 0)
        + song.views + song.likes

\* Lines 291-308
PersonalizedSorted(converted, hist) ==
    OrderDesc(SelectSeq(converted, LAMBDA song : song.id \notin HistorySongIds(hist)),
              LAMBDA song : HistoryScore(song, hist))

\* Mutant: the whole ranking kept as the trending list.
TrendingUncut(converted) == OrderDesc(converted, LAMBDA song : song.views + song.likes)

\* Lines 314-316
Trending(converted) ==
    Slice(OrderDesc(converted, LAMBDA song : song.views + song.likes), 15)

\* A failed fetch of loadData run n is remembered in the record of that run.
MarkFailed(calls, n, bad) ==
    IF bad THEN {IF c.kind = "load" /\ c.n = n THEN [c EXCEPT !.failed = TRUE] ELSE c :
                    c \in calls}
    ELSE calls

\* A fetch, loadData run or mutation suspended at an await.
ViewCall(n, kind, pc, userId) ==
    [n |-> n, kind |-> kind, pc |-> pc, userId |-> userId, likedSeen |-> likedSongs,
     songsData |-> << >>, liked |-> {}, hist |-> << >>, failed |-> FALSE,
     songId |-> << >>, song |-> 0, playlistId |-> << >>, name |-> "", added |-> << >>,
     before |-> << >>]

\* The effect of lines 984-1024 runs loadData for the user u.  Without a user id
\* everything is reset; with one, loading starts and the three fetches are
\* invoked: each runs to its first await (lines 199-213, 490-509, 552-570).
LoadData(u) ==
    /\ propUser' = u
    /\ IF (IF u # NoUser THEN u ELSE storage) = NoUser
       THEN /\ songsCache' = [has |-> FALSE, val |-> << >>]
            /\ likedSongsCache' = [has |-> FALSE, val |-> {}]
            /\ likedCacheOwner' = NoUser
            /\ songs' = << >>
            /\ personalizedSongs' = << >>
            /\ trendingSongs' = << >>
            /\ playlists' = << >>
            /\ likedSongs' = {}
            /\ recentlyPlayedSongs' = << >>
            /\ lastPlayedSong' = << >>
            /\ dataLoading' = FALSE
            /\ viewStep' = [kind |-> "reset", outcome |-> "ok", n |-> 0]
            /\ UNCHANGED <<loadsInFlight, viewCalls, viewCount>>
       ELSE /\ viewCount < MaxViewOps
            /\ loadsInFlight < MaxOverlap
            /\ LET id == IF u # NoUser THEN u ELSE storage
                   n == viewCount + 1
               IN  /\ viewCalls' = viewCalls \cup
                          { ViewCall(n, "load", "all", id), ViewCall(n, "songs", "songs", id),
                            ViewCall(n, "playlists", "playlists", id),
                            ViewCall(n, "recent", "history", id) }
                   /\ viewCount' = n
                   /\ viewStep' = [kind |-> "load", outcome |-> "ok", n |-> n]
            /\ loadsInFlight' = loadsInFlight + 1
            /\ dataLoading' = TRUE
            /\ UNCHANGED <<songsCache, likedSongsCache, likedCacheOwner, songs,
                           personalizedSongs, trendingSongs, playlists, likedSongs,
                           recentlyPlayedSongs, lastPlayedSong>>
    /\ UNCHANGED <<storage, trackerVars, authVars, persCalls, persResult, persCount,
                   dbSongs, dbLiked, dbPlaylists, lastToggle>>

\* What the steps of the fetches leave alone.
notFetch == <<notViews, propUser, dbSongs, dbLiked, dbPlaylists, viewCount, lastToggle,
              dataLoading, loadsInFlight>>

\* fetchSongs, lines 210-217 and 338-343: the songs query settles.  An error is
\* thrown into the catch, which empties three of the views.
FetchSongsRead(c, outcome) ==
    /\ c \in viewCalls
    /\ c.kind = "songs" /\ c.pc = "songs"
    /\ IF outcome = "ok"
       THEN /\ viewCalls' = (viewCalls \ {c}) \cup
                                {[c EXCEPT !.pc = "liked", !.songsData = SongsByViews]}
            /\ UNCHANGED <<songs, personalizedSongs, trendingSongs>>
       ELSE /\ viewCalls' = MarkFailed(viewCalls \ {c}, c.n, TRUE)
            /\ songs' = << >>
            /\ personalizedSongs' = << >>
            /\ trendingSongs' = << >>
    /\ viewStep' = [kind |-> "songs", outcome |-> outcome, n |-> c.n]
    /\ UNCHANGED <<notFetch, lastPlayedSong, likedSongs, playlists, recentlyPlayedSongs>>

\* fetchSongs, lines 222-234: the liked_songs query settles.  An error is logged
\* and the fetch goes on with an empty set, leaving the likedSongs state alone.
FetchSongsLikedRead(c, outcome) ==
    /\ c \in viewCalls
    /\ c.kind = "songs" /\ c.pc = "liked"
    /\ IF outcome = "ok"
       THEN /\ likedSongs' = dbLiked[c.userId]
            /\ viewCalls' = (viewCalls \ {c}) \cup
                                {[c EXCEPT !.pc = "history", !.liked = dbLiked[c.userId]]}
       ELSE /\ UNCHANGED likedSongs
            /\ viewCalls' = MarkFailed((viewCalls \ {c}) \cup {[c EXCEPT !.pc = "history"]},
                                       c.n, TRUE)
    /\ viewStep' = [kind |-> "liked", outcome |-> outcome, n |-> c.n]
    /\ UNCHANGED <<notFetch, songs, personalizedSongs, trendingSongs, lastPlayedSong,
                   playlists, recentlyPlayedSongs>>

\* fetchSongs, lines 238-317: the history query settles (an error is logged and
\* the fetch goes on without history); the songs are converted and the three
\* lists are set; the fetch then awaits the users row.
FetchSongsHistoryRead(c, outcome) ==
    /\ c \in viewCalls
    /\ c.kind = "songs" /\ c.pc = "history"
    /\ LET hist == IF outcome = "ok" THEN HistoryRows ELSE << >>
           converted == ConvertedSongs(c.songsData, c.liked)
       IN  /\ songs' = converted
           /\ personalizedSongs' = PersonalizedSorted(converted, hist)
           /\ trendingSongs' = Trending(converted)
           /\ viewCalls' = MarkFailed((viewCalls \ {c}) \cup
                                          {[c EXCEPT !.pc = "user", !.hist = hist]},
                                      c.n, outcome # "ok")
    /\ viewStep' = [kind |-> "history", outcome |-> outcome, n |-> c.n]
    /\ UNCHANGED <<notFetch, lastPlayedSong, likedSongs, playlists, recentlyPlayedSongs>>

\* fetchSongs, lines 323-337: the users row settles; the last played song is set
\* when the row names a song of the converted list.
FetchSongsUserRead(c, outcome) ==
    /\ c \in viewCalls
    /\ c.kind = "songs" /\ c.pc = "user"
    /\ LET found == SelectSeq(ConvertedSongs(c.songsData, c.liked),
                              LAMBDA song : song.file_id = dbLastSong)
       IN  IF outcome = "ok" /\ dbLastSong # 0 /\ found # << >>
           THEN lastPlayedSong' = <<found[1]>>
           ELSE UNCHANGED lastPlayedSong
    /\ viewCalls' = MarkFailed(viewCalls \ {c}, c.n, outcome # "ok")
    /\ viewStep' = [kind |-> "user", outcome |-> outcome, n |-> c.n]
    /\ UNCHANGED <<notFetch, songs, personalizedSongs, trendingSongs, likedSongs, playlists,
                   recentlyPlayedSongs>>

\* playlists of a user with their playlist_songs(songs(*)), lines 561-570
PlaylistRows(userId) == SelectSeq(dbPlaylists, LAMBDA p : p.user_id = userId)

\* Lines 577-589, with the likedSongs state of the render that invoked the fetch.
ConvertPlaylist(row, liked) ==
    LET joined == [i \in 1..Len(row.songs) |-> JoinedSongs(row.songs[i])[1]]
        playlistSongs == ConvertedSongs(joined, liked)
    IN  [id |-> ToStr(row.id), name |-> row.name, songCount |-> Len(playlistSongs),
         image |-> IF playlistSongs # << >> THEN playlistSongs[1].image ELSE DefaultImage,
         songs |-> playlistSongs]

\* fetchPlaylists, lines 561-595: the query settles.  An error is thrown into a
\* catch that only logs it.
FetchPlaylistsRead(c, outcome) ==
    /\ c \in viewCalls
    /\ c.kind = "playlists"
    /\ IF outcome = "ok"
       THEN LET rows == PlaylistRows(c.userId)
            IN  playlists' = [i \in 1..Len(rows) |-> ConvertPlaylist(rows[i], c.likedSeen)]
       ELSE UNCHANGED playlists
    /\ viewCalls' = MarkFailed(viewCalls \ {c}, c.n, outcome # "ok")
    /\ viewStep' = [kind |-> "playlists", outcome |-> outcome, n |-> c.n]
    /\ UNCHANGED <<notFetch, songs, personalizedSongs, trendingSongs, lastPlayedSong,
                   likedSongs, recentlyPlayedSongs>>

\* fetchRecentlyPlayed, lines 500-520: the history query (limit 9) settles.  An
\* error returns at once; no rows empty the list.
FetchRecentHistoryRead(c, outcome) ==
    /\ c \in viewCalls
    /\ c.kind = "recent" /\ c.pc = "history"
    /\ IF outcome # "ok"
       THEN /\ viewCalls' = MarkFailed(viewCalls \ {c}, c.n, TRUE)
            /\ UNCHANGED recentlyPlayedSongs
       ELSE IF HistoryRows = << >>
       THEN /\ viewCalls' = viewCalls \ {c}
            /\ recentlyPlayedSongs' = << >>
       ELSE /\ viewCalls' = (viewCalls \ {c}) \cup
                                {[c EXCEPT !.pc = "liked", !.hist = Slice(HistoryRows, 9)]}
            /\ UNCHANGED recentlyPlayedSongs
    /\ viewStep' = [kind |-> "recent", outcome |-> outcome, n |-> c.n]
    /\ UNCHANGED <<notFetch, songs, personalizedSongs, trendingSongs, lastPlayedSong,
                   likedSongs, playlists>>

\* fetchRecentlyPlayed, lines 524-543: the liked_songs query settles (its error
\* is not looked at) and the rows with a song are converted.
FetchRecentLikedRead(c, outcome) ==
    /\ c \in viewCalls
    /\ c.kind = "recent" /\ c.pc = "liked"
    /\ LET liked == IF outcome = "ok" THEN dbLiked[c.userId] ELSE {}
           rows == SelectSeq(c.hist, LAMBDA item : item.songs # << >>)
       IN  recentlyPlayedSongs' =
               [i \in 1..Len(rows) |->
                   ConvertDatabaseSong(rows[i].songs[1], rows[i].song_id \in liked)]
    /\ viewCalls' = MarkFailed(viewCalls \ {c}, c.n, outcome # "ok")
    /\ viewStep' = [kind |-> "recentLiked", outcome |-> outcome, n |-> c.n]
    /\ UNCHANGED <<notFetch, songs, personalizedSongs, trendingSongs, lastPlayedSong,
                   likedSongs, playlists>>

\* loadData, lines 1006-1020: the three fetches of the run have returned (none of
\* them rejects: each catches its own errors) and, finally, loading ends.
LoadDataReturns(c) ==
    /\ c \in viewCalls
    /\ c.kind = "load"
    /\ \A f \in viewCalls : f.n = c.n => f = c
    /\ viewCalls' = viewCalls \ {c}
    /\ dataLoading' = FALSE
    /\ loadsInFlight' = loadsInFlight - 1
    /\ viewStep' = [kind |-> "loaded", outcome |-> IF c.failed THEN "error" ELSE "ok",
                    n |-> c.n]
    /\ UNCHANGED <<notViews, propUser, dbSongs, dbLiked, dbPlaylists, viewCount, lastToggle,
                   songs, personalizedSongs, trendingSongs, lastPlayedSong, likedSongs,
                   playlists, recentlyPlayedSongs>>

InitViewVars(remotePlaylists) ==
    /\ songs = << >>
    /\ personalizedSongs = << >>
    /\ trendingSongs = << >>
    /\ lastPlayedSong = << >>
    /\ likedSongs = {}
    /\ playlists = << >>
    /\ recentlyPlayedSongs = << >>
    /\ dbPlaylists = remotePlaylists
    /\ viewCalls = {}
    /\ viewCount = 0
    /\ viewStep = [kind |-> "none", outcome |-> "ok", n |-> 0]
    /\ lastToggle = [done |-> FALSE, song |-> 0, before |-> << >>, after |-> << >>]

\* The steps of loadData and of its fetches.
FetchStep ==
    \/ \E c \in viewCalls, o \in Outcomes : FetchSongsRead(c, o)
    \/ \E c \in viewCalls, o \in Outcomes : FetchSongsLikedRead(c, o)
    \/ \E c \in viewCalls, o \in Outcomes : FetchSongsHistoryRead(c, o)
    \/ \E c \in viewCalls, o \in Outcomes : FetchSongsUserRead(c, o)
    \/ \E c \in viewCalls, o \in Outcomes : FetchPlaylistsRead(c, o)
    \/ \E c \in viewCalls, o \in Outcomes : FetchRecentHistoryRead(c, o)
    \/ \E c \in viewCalls, o \in Outcomes : FetchRecentLikedRead(c, o)
    \/ \E c \in viewCalls : LoadDataReturns(c)

----------------------------------------------------------------------------
(* useSupabaseData: toggleLike and the playlist mutations *)

\* What the steps of the mutations leave alone.
notMutation == <<notViews, propUser, personalizedSongs, trendingSongs, lastPlayedSong,
                 recentlyPlayedSongs, dataLoading, loadsInFlight>>

\* What toggleLike leaves of the views: the songs, the playlists, the liked set.
LikeViews == <<songs, playlists, likedSongs>>

\* A mutation is invoked and runs to its first await.
Invoke(call) ==
    /\ GetUserId # NoUser
    /\ viewCount < MaxViewOps
    /\ viewCalls' = viewCalls \cup {call}
    /\ viewCount' = viewCount + 1
    /\ viewStep' = [kind |-> "invoked", outcome |-> "ok", n |-> viewCount + 1]
    /\ UNCHANGED <<notMutation, songs, playlists, likedSongs, dbSongs, dbLiked, dbPlaylists,
                   lastToggle>>

\* toggleLike, lines 600-618 and 636-641: isCurrentlyLiked is read from the
\* likedSongs state of the render, then the liked_songs row is deleted or inserted.
ToggleLike(songId) ==
    Invoke([ViewCall(viewCount + 1, "toggle", "write", GetUserId)
                EXCEPT !.songId = songId, !.song = ParseInt(songId), !.before = LikeViews])

\* Lines 620-623 and 643-646: the delete or insert settles; an error is thrown
\* into the catch of line 683, which only logs it.
ToggleWriteSettles(c, outcome) ==
    /\ c \in viewCalls
    /\ c.kind = "toggle" /\ c.pc = "write"
    /\ IF outcome = "ok"
       THEN /\ dbLiked' = [dbLiked EXCEPT ![c.userId] =
                              IF c.song \in c.likedSeen THEN @ \ {c.song} ELSE @ \cup {c.song}]
            /\ viewCalls' = (viewCalls \ {c}) \cup {[c EXCEPT !.pc = "rpc"]}
       ELSE /\ viewCalls' = viewCalls \ {c}
            /\ UNCHANGED dbLiked
    /\ viewStep' = [kind |-> "toggleWrite", outcome |-> outcome, n |-> c.n]
    /\ UNCHANGED <<notMutation, songs, playlists, likedSongs, dbSongs, dbPlaylists, viewCount,
                   lastToggle>>

\* The like counter of a songs row moved by d (increment_song_likes,
\* decrement_song_likes).
LikesMoved(rows, n, d) ==
    [i \in 1..Len(rows) |->
        IF rows[i].file_id = n THEN [rows[i] EXCEPT !.likes = @ + d] ELSE rows[i]]

\* Lines 656-682: the liked flag and the like count of a song of a list.
LikeApplied(list, songId, isCurrentlyLiked) ==
    [i \in 1..Len(list) |->
        IF list[i].id = songId
        THEN [list[i] EXCEPT !.isLiked = ~isCurrentlyLiked,
                             !.likes = @ + (IF isCurrentlyLiked THEN -1 ELSE 1)]
        ELSE list[i]]

\* Lines 626-682: the rpc settles (what it returns is not looked at) and the
\* liked set, the songs and the songs of every playlist are updated.
ToggleRpcSettles(c, outcome) ==
    /\ c \in viewCalls
    /\ c.kind = "toggle" /\ c.pc = "rpc"
    /\ LET isCurrentlyLiked == c.song \in c.likedSeen
       IN  /\ dbSongs' = IF outcome = "ok"
                         THEN LikesMoved(dbSongs, c.song, IF isCurrentlyLiked THEN -1 ELSE 1)
                         ELSE dbSongs
           /\ likedSongs' = IF isCurrentlyLiked THEN likedSongs \ {c.song}
                            ELSE likedSongs \cup {c.song}
           /\ songs' = LikeApplied(songs, c.songId, isCurrentlyLiked)
           /\ playlists' = [i \in 1..Len(playlists) |->
                               [playlists[i] EXCEPT !.songs =
                                   LikeApplied(@, c.songId, isCurrentlyLiked)]]
    /\ viewCalls' = viewCalls \ {c}
    /\ viewStep' = [kind |-> "toggled", outcome |-> outcome, n |-> c.n]
    /\ lastToggle' = [done |-> TRUE, song |-> c.song, before |-> c.before,
                      after |-> LikeViews']
    /\ UNCHANGED <<notMutation, dbLiked, dbPlaylists, viewCount>>

\* createPlaylist, lines 690-705
CreatePlaylist(name) ==
    Invoke([ViewCall(viewCount + 1, "create", "write", GetUserId) EXCEPT !.name = name])

\* deletePlaylist, lines 729-741
DeletePlaylist(playlistId) ==
    Invoke([ViewCall(viewCount + 1, "delete", "write", GetUserId)
                EXCEPT !.playlistId = playlistId])

\* renamePlaylist, lines 757-769
RenamePlaylist(playlistId, newName) ==
    Invoke([ViewCall(viewCount + 1, "rename", "write", GetUserId)
                EXCEPT !.playlistId = playlistId, !.name = newName])

\* addSongToPlaylist, lines 791-804
AddSongToPlaylist(playlistId, song) ==
    Invoke([ViewCall(viewCount + 1, "add", "write", GetUserId)
                EXCEPT !.playlistId = playlistId, !.added = <<song>>])

\* removeSongFromPlaylist, lines 836-848
RemoveSongFromPlaylist(playlistId, songId) ==
    Invoke([ViewCall(viewCount + 1, "remove", "write", GetUserId)
                EXCEPT !.playlistId = playlistId, !.songId = songId])

\* The id the remote store gives a new playlist.
NewPlaylistId ==
    IF dbPlaylists = << >> THEN 1
    ELSE 1 + (CHOOSE m \in {dbPlaylists[i].id : i \in 1..Len(dbPlaylists)} :
                 \A i \in 1..Len(dbPlaylists) : dbPlaylists[i].id <= m)

\* The remote write of a playlist mutation, applied to the playlists table.
RemoteWritten(c) ==
    LET mine(row) == row.id = ParseInt(c.playlistId) /\ row.user_id = c.userId
    IN  CASE c.kind = "create" ->
                Append(dbPlaylists, [id |-> NewPlaylistId, user_id |-> c.userId,
                                     name |-> c.name, songs |-> << >>])
          [] c.kind = "delete" -> SelectSeq(dbPlaylists, LAMBDA row : ~mine(row))
          [] c.kind = "rename" ->
                [i \in 1..Len(dbPlaylists) |->
                    IF mine(dbPlaylists[i]) THEN [dbPlaylists[i] EXCEPT !.name = c.name]
                    ELSE dbPlaylists[i]]
          [] c.kind = "add" ->
                [i \in 1..Len(dbPlaylists) |->
                    IF dbPlaylists[i].id = ParseInt(c.playlistId)
                    THEN [dbPlaylists[i] EXCEPT !.songs = Append(@, c.added[1].file_id)]
                    ELSE dbPlaylists[i]]
          [] c.kind = "remove" ->
                [i \in 1..Len(dbPlaylists) |->
                    IF dbPlaylists[i].id = ParseInt(c.playlistId)
                    THEN [dbPlaylists[i] EXCEPT
                             !.songs = SelectSeq(@, LAMBDA n : n # ParseInt(c.songId))]
                    ELSE dbPlaylists[i]]

\* Mutant: the local list updated whatever the remote call returned.
LocalPlaylistsOptimistic(c, outcome, updated) == updated

\* The playlists after a mutation: the update is reached only when the remote
\* call returned no error (the throws of lines 709, 745, 773, 808, 852).
LocalPlaylists(c, outcome, updated) == IF outcome = "ok" THEN updated ELSE playlists

\* Mutant: the songs replaced, the derived song count left as it was.
WithSongsStaleCount(playlist, updatedSongs, fallback) ==
    [playlist EXCEPT !.songs = updatedSongs,
                     !.image = IF updatedSongs # << >> THEN updatedSongs[1].image
                               ELSE fallback]

\* A playlist with its songs replaced (lines 816-822 and 858-864).
WithSongs(playlist, updatedSongs, fallback) ==
    [playlist EXCEPT !.songs = updatedSongs, !.songCount = Len(updatedSongs),
                     !.image = IF updatedSongs # << >> THEN updatedSongs[1].image
                               ELSE fallback]

\* The remote call of a playlist mutation settles: the row is written or the
\* call fails, and the local playlists are updated or left alone.
MutationSettles(c, outcome, written, updated) ==
    /\ c \in viewCalls
    /\ c.pc = "write"
    /\ dbPlaylists' = IF outcome = "ok" THEN written ELSE dbPlaylists
    /\ playlists' = LocalPlaylists(c, outcome, updated)
    /\ viewCalls' = viewCalls \ {c}
    /\ viewStep' = [kind |-> c.kind, outcome |-> outcome, n |-> c.n]
    /\ UNCHANGED <<notMutation, songs, likedSongs, dbSongs, dbLiked, viewCount, lastToggle>>

\* createPlaylist, lines 707-724
CreatePlaylistSettles(c, outcome) ==
    /\ c.kind = "create"
    /\ MutationSettles(c, outcome, RemoteWritten(c),
           Append(playlists, [id |-> ToStr(NewPlaylistId), name |-> c.name, songCount |-> 0,
                              image |-> DefaultImage, songs |-> << >>]))

\* deletePlaylist, lines 743-752
DeletePlaylistSettles(c, outcome) ==
    /\ c.kind = "delete"
    /\ MutationSettles(c, outcome, RemoteWritten(c),
           SelectSeq(playlists, LAMBDA playlist : playlist.id # c.playlistId))

\* renamePlaylist, lines 771-786
RenamePlaylistSettles(c, outcome) ==
    /\ c.kind = "rename"
    /\ MutationSettles(c, outcome, RemoteWritten(c),
           [i \in 1..Len(playlists) |->
               IF playlists[i].id = c.playlistId
               THEN [playlists[i] EXCEPT !.name = c.name] ELSE playlists[i]])

\* addSongToPlaylist, lines 806-831
AddSongToPlaylistSettles(c, outcome) ==
    /\ c.kind = "add"
    /\ MutationSettles(c, outcome, RemoteWritten(c),
           [i \in 1..Len(playlists) |->
               IF /\ playlists[i].id = c.playlistId
                  /\ \A j \in 1..Len(playlists[i].songs) :
                        playlists[i].songs[j].id # c.added[1].id
               THEN WithSongs(playlists[i], Append(playlists[i].songs, c.added[1]),
                              playlists[i].image)
               ELSE playlists[i]])

\* removeSongFromPlaylist, lines 850-872
RemoveSongFromPlaylistSettles(c, outcome) ==
    /\ c.kind = "remove"
    /\ MutationSettles(c, outcome, RemoteWritten(c),
           [i \in 1..Len(playlists) |->
               IF playlists[i].id = c.playlistId
               THEN WithSongs(playlists[i],
                              SelectSeq(playlists[i].songs,
                                        LAMBDA song : song.id # c.songId),
                              DefaultImage)
               ELSE playlists[i]])

\* toggleLike on the songs of the given ids, invoked when `free` holds.
ToggleStep(songIds, free) ==
    \/ free /\ \E songId \in songIds : ToggleLike(songId)
    \/ \E c \in viewCalls, o \in Outcomes : ToggleWriteSettles(c, o)
    \/ \E c \in viewCalls, o \in Outcomes : ToggleRpcSettles(c, o)

\* The ids of the local playlists, as a consumer of the hook sees them.
PlaylistIds == {playlists[i].id : i \in 1..Len(playlists)}

\* The playlist mutations, on the playlists shown and with the given names and
\* songs, invoked when `free` holds.
PlaylistStep(names, added, removed, free) ==
    \/ free /\ \E name \in names : CreatePlaylist(name)
    \/ free /\ \E id \in PlaylistIds : DeletePlaylist(id)
    \/ free /\ \E id \in PlaylistIds, name \in names : RenamePlaylist(id, name)
    \/ free /\ \E id \in PlaylistIds, song \in added : AddSongToPlaylist(id, song)
    \/ free /\ \E id \in PlaylistIds, songId \in removed : RemoveSongFromPlaylist(id, songId)
    \/ \E c \in viewCalls, o \in Outcomes : CreatePlaylistSettles(c, o)
    \/ \E c \in viewCalls, o \in Outcomes : DeletePlaylistSettles(c, o)
    \/ \E c \in viewCalls, o \in Outcomes : RenamePlaylistSettles(c, o)
    \/ \E c \in viewCalls, o \in Outcomes : AddSongToPlaylistSettles(c, o)
    \/ \E c \in viewCalls, o \in Outcomes : RemoveSongFromPlaylistSettles(c, o)

----------------------------------------------------------------------------
(* Specifications *)

\* The tracker of a hook with or without a user.
InitTracker ==
    /\ storage = NoUser
    /\ \E pu \in {NoUser, 1} : InitTrackerVars(pu)
    /\ InitAuthVars(NoUser)
    /\ InitDataVars(<< >>)
    /\ InitViewVars(<< >>)
NextTracker == TrackerStep
SpecTracker == InitTracker /\ [][NextTracker]_vars

\* useAuth on its own, from any persisted identity.
InitAuth ==
    /\ storage \in Users \cup {NoUser}
    /\ InitAuthVars(storage)
    /\ InitTrackerVars(NoUser)
    /\ InitDataVars(<< >>)
    /\ InitViewVars(<< >>)
NextAuth == AuthStep
SpecAuth == InitAuth /\ [][NextAuth]_vars
\* The timeout is a timer that nothing cancels: it fires.
FairSpecAuth == SpecAuth /\ WF_vars(TimeoutFires)

\* The caches and the personalization calls, under changes of the user.
InitData ==
    /\ storage = NoUser
    /\ \E catalog \in Catalogs : InitDataVars(catalog)
    /\ InitTrackerVars(NoUser)
    /\ InitAuthVars(NoUser)
    /\ InitViewVars(<< >>)
NextData == DataStep
SpecData == InitData /\ [][NextData]_vars

\* Filtering, scoring and ranking, over every songs table of the model and the
\* large one, for a user whose identity is persisted.
InitScore ==
    /\ storage = 1
    /\ \E catalog \in Catalogs \cup {BigCatalog} : InitDataVars(catalog)
    /\ InitTrackerVars(NoUser)
    /\ InitAuthVars(storage)
    /\ InitViewVars(<< >>)
NextScore == PersonalizationStep(SeedSongs, Batches \cup MajorityBatches, ExcludeSets)
SpecScore == InitScore /\ [][NextScore]_vars

\* The history and the playlist of a user who has listened before.
ListenedBefore == [n \in SongIds |-> IF n = 2 THEN 150 ELSE IF n = 12 THEN 300 ELSE 0]
RemotePlaylists == << [id |-> 7, user_id |-> 1, name |-> "p", songs |-> <<2, 1>>] >>

\* What the remote store holds when the hook mounts: the large songs table for
\* a new user, or the small one for a user who has listened before.
RemoteStores ==
    { [catalog |-> BigCatalog, history |-> [n \in SongIds |-> 0], lastSong |-> 0,
       playlists |-> << >>],
      [catalog |-> <<SongA, SongB, SongC>>, history |-> ListenedBefore, lastSong |-> 2,
       playlists |-> RemotePlaylists] }

\* loadData, its fetches and toggleLike of a mounted hook.
InitViews ==
    /\ storage = NoUser
    /\ \E remote \in RemoteStores :
          /\ InitDataVars(remote.catalog)
          /\ InitTrackerOver(NoUser, remote.history, remote.lastSong)
          /\ InitViewVars(remote.playlists)
    /\ InitAuthVars(NoUser)
\* One loadData run or toggleLike at a time; the user may go away at any moment.
NextViews ==
    \/ \E u \in {1, NoUser} : (u = NoUser \/ viewCalls = {}) /\ LoadData(u)
    \/ FetchStep
    \/ ToggleStep({ToStr(2)}, viewCalls = {})
SpecViews == InitViews /\ [][NextViews]_vars

\* The playlist mutations of a hook mounted for the persisted user, one at a
\* time, between loadData runs.
InitPlaylists ==
    /\ storage = 1
    /\ InitDataVars(<<SongA, SongB, SongC>>)
    /\ InitAuthVars(storage)
    /\ InitTrackerOver(NoUser, ListenedBefore, 2)
    /\ \E remote \in {<< >>, RemotePlaylists} : InitViewVars(remote)
NextPlaylists ==
    \/ viewCalls = {} /\ LoadData(NoUser)
    \/ FetchStep
    \/ PlaylistStep({"p", "q"}, {ConvertDatabaseSong(SongC, FALSE)}, {ToStr(2), ToStr(12)},
                    viewCalls = {})
SpecPlaylists == InitPlaylists /\ [][NextPlaylists]_vars

\* toggleLike, one call at a time, next to the personalization calls that fill
\* and read the caches.
InitLikeCache ==
    /\ storage = 1
    /\ InitDataVars(<<SongA, SongB, SongC>>)
    /\ InitAuthVars(storage)
    /\ InitTrackerVars(NoUser)
    /\ InitViewVars(<< >>)
NextLikeCache ==
    \/ PersonalizationStep({SongB}, {<<SongA>>}, {{}})
    \/ ToggleStep({ToStr(1)}, viewCalls = {})
SpecLikeCache == InitLikeCache /\ [][NextLikeCache]_vars

----------------------------------------------------------------------------
(* Tracker claims *)

\* A step that invokes recordListeningHistory / stopCurrentSongTracking.
StartInvoked == opCount' = opCount + 1 /\ observed'.op = "start"
StopInvoked == opCount' = opCount + 1 /\ observed'.op = "stop"

C3_ObservedBothOrNeither ==
    (observed.ref = NoSong) <=> (observed.start = NoTime)

----------------------------------------------------------------------------
(* useAuth claims *)

\* A step in which a useAuth handler ran; authStep' tells which, and with what.
AuthStepped == authStep'.seq # authStep.seq

\* C5: when a local identity u was found at construction and the initial session
\* check fails (timeout, error result or rejection), that step leaves the local
\* identity alone, in memory and in localStorage; unless a notification or a
\* sign-out was handled before it, the effective identity is then u.
C5_FailedCheckKeepsLocal ==
    [][ (AuthStepped /\ authStep'.live /\ authStep'.kind \in {"timeout", "error", "reject"}
            /\ localData # NoUser)
        => /\ localUserData' = localUserData
           /\ storage' = storage
           /\ ~interfered => /\ EffectiveUser' = localData
                             /\ localUserData' = localData
                             /\ storage' = localData
      ]_vars

\* Local identity 1, the session check timed out: still identity 1.
C5_Witness ==
    /\ authStep.kind = "timeout" /\ authStep.live
    /\ localData = 1 /\ ~interfered
    /\ EffectiveUser = 1 /\ storage = 1 /\ user = NoUser

\* C6: loading is true at construction; while the hook stays mounted it becomes
\* false at some point, and it has been false once the timeout has fired.
C6_LoadingEnds ==
    /\ loading = TRUE
    /\ [](timer = "fired" /\ mounted => loadingCleared)
    /\ <>(~loading \/ ~mounted)

\* The provider never answered and the timeout ended the loading.
C6_Witness ==
    /\ authStep.kind = "timeout" /\ authStep.live
    /\ sessionPromise = PendingSession /\ timer = "fired"
    /\ mounted /\ ~loading

C8_NoSessionKeepsLocal ==
    [][ (AuthStepped /\ authStep'.live /\ authStep'.kind \in {"none", "OTHER"}
            /\ authStep'.session = NoUser /\ localUserData # NoUser)
        => /\ localUserData' = localUserData
           /\ storage' = storage
           /\ EffectiveUser' # NoUser
      ]_vars

----------------------------------------------------------------------------
(* Claims about the caches and the personalization functions (SpecData) *)

\* C4: a personalization call for user u never scores with a liked set that
\* was fetched for a different user: the caches hold the data of one user at a
\* time and are cleared when the user id changes.
C4_CachesOfOneUser ==
    persResult.fetched => persResult.likedOwner = persResult.userId

\* C10: every song returned by seed-song personalization has the language of the
\* seed, is not the seed and is not in the exclusion set; every song returned by
\* history-batch personalization has the language the batch is filtered by and is
\* not in the exclusion set; for the catalog A(en), B(en), C(fr), seed A and an
\* empty exclusion set the result is exactly [B].
C10_ResultsPassFilters ==
    /\ \A i \in 1..Len(persResult.songs) :
          LET song == persResult.songs[i]
              ref == persResult.batch[1]
          IN  /\ song.id \notin persResult.exclude
              /\ song.language = ref.language
              /\ persResult.mode = "seed" => song.id # ToStr(ref.file_id)
    /\ (/\ persResult.mode = "seed"
        /\ persResult.fetched
        /\ dbSongs = <<SongA, SongB, SongC>>
        /\ persResult.batch = <<SongA>>
        /\ persResult.exclude = {})
       => /\ Len(persResult.songs) = 1
          /\ persResult.songs[1].file_id = SongB.file_id

\* C10's case: seed A over the catalog A, B, C with nothing excluded returned [B].
C10_Witness ==
    /\ persResult.mode = "seed"
    /\ persResult.fetched
    /\ dbSongs = <<SongA, SongB, SongC>>
    /\ persResult.batch = <<SongA>>
    /\ persResult.exclude = {}
    /\ [i \in 1..Len(persResult.songs) |-> persResult.songs[i].id] = <<ToStr(2)>>

\* The score a returned call gave the candidate with file id n.
ScoreGiven(n) ==
    LET i == CHOOSE k \in 1..Len(persResult.scored) : persResult.scored[k].song.file_id = n
    IN  persResult.scored[i].score

\* The rows of the songs table that pass the filters of the returned call, counted
\* from the table itself.
Candidates ==
    {i \in 1..Len(dbSongs) :
        /\ ToStr(dbSongs[i].file_id) \notin persResult.exclude
        /\ dbSongs[i].language = persResult.batch[1].language
        /\ persResult.mode = "seed" => dbSongs[i].file_id # persResult.batch[1].file_id}

\* C12: seed-song personalization returns min(10, candidates) songs and
\* history-batch personalization min(15, candidates); the songs returned are in
\* non-increasing score order and no candidate left out has a strictly higher score
\* than a returned one.
C12_TopKByScore ==
    persResult.fetched =>
        LET K == IF persResult.mode = "seed" THEN 10 ELSE 15
            returned == {persResult.songs[i].file_id : i \in 1..Len(persResult.songs)}
        IN  /\ Len(persResult.songs) = Min(K, Cardinality(Candidates))
            /\ Cardinality(returned) = Len(persResult.songs)
            /\ returned \subseteq {dbSongs[i].file_id : i \in Candidates}
            /\ \A i, j \in 1..Len(persResult.songs) :
                  i < j => ScoreGiven(persResult.songs[i].file_id)
                              >= ScoreGiven(persResult.songs[j].file_id)
            /\ \A i \in Candidates, n \in returned :
                  dbSongs[i].file_id \notin returned
                     => ScoreGiven(dbSongs[i].file_id) <= ScoreGiven(n)

\* Seed A over the large table: fifteen candidates, ten returned.
C12_Witness ==
    /\ persResult.fetched /\ persResult.mode = "seed"
    /\ persResult.batch = <<SongA>> /\ persResult.exclude = {}
    /\ dbSongs = BigCatalog
    /\ Cardinality(Candidates) = 15
    /\ Len(persResult.songs) = 10

\* The scoring components of a scored candidate other than its tag overlap.
OtherComponents(song) ==
    LET batch == persResult.batch
    IN  <<IF persResult.mode = "seed" THEN song.artist = batch[1].artist
          ELSE song.artist \in {batch[i].artist : i \in 1..Len(batch)},
          IF persResult.mode = "seed" THEN song.language = batch[1].language
          ELSE song.language \in {batch[i].language : i \in 1..Len(batch)},
          IF persResult.mode = "seed" THEN Min(200 * persResult.history[song.file_id], 2000)
          ELSE 0,
          song.likes, song.views, song.isLiked>>

\* The number of tags a scored candidate shares with the reference.
TagOverlap(song) ==
    LET batch == persResult.batch
    IN  Cardinality(song.tags \cap
            (IF persResult.mode = "seed" THEN batch[1].tags
             ELSE UNION {batch[i].tags : i \in 1..Len(batch)}))

\* C18: in both modes, of two candidates of a call equal in every scoring component
\* but the tag overlap, the one with the larger overlap never has the lower score,
\* whatever the random term adds.
C18_MonotonicInTagOverlap ==
    \A i, j \in 1..Len(persResult.scored) :
        LET a == persResult.scored[i]
            b == persResult.scored[j]
        IN  (OtherComponents(a.song) = OtherComponents(b.song)
                /\ TagOverlap(a.song) > TagOverlap(b.song))
            => a.score >= b.score

\* Seed D: row 5 shares two tags, row 4 one and draws the largest random term.
C18_Witness ==
    /\ persResult.fetched /\ persResult.mode = "seed" /\ persResult.batch = <<SongD>>
    /\ \E i, j \in 1..Len(persResult.scored) :
          /\ persResult.scored[i].song.file_id = 5
          /\ persResult.scored[j].song.file_id = 4
          /\ OtherComponents(persResult.scored[i].song)
                = OtherComponents(persResult.scored[j].song)
          /\ persResult.scored[i].score - persResult.scored[j].score = 1500 - 299

\* The language most songs of the returned call's batch are in, when there is one.
DominantLanguages ==
    LET batch == persResult.batch
        Count(l) == Cardinality({i \in 1..Len(batch) : batch[i].language = l})
        langs == {batch[i].language : i \in 1..Len(batch)}
    IN  {l \in langs : \A m \in langs \ {l} : Count(l) > Count(m)}

\* C19: every song history-batch personalization returns is in the dominant
\* language of the batch, also when the first song of the batch is not.
C19_BatchDominantLanguage ==
    persResult.mode = "batch" =>
        \A i \in 1..Len(persResult.songs), l \in DominantLanguages :
            persResult.songs[i].language = l

\* C16: a personalization call issues a songs query only when the songs cache is
\* empty and a liked_songs query only when the liked-set cache is empty; a call
\* that finds the liked set cached scores with the cached set, and a call invoked
\* with both caches populated that returns while they still are has issued neither
\* query.
C16_CachedReadsIssueNoQuery ==
    [][ /\ \A c \in persCalls' \ persCalls :
              /\ c.pc = "songs" => ~songsCache.has
              /\ c.pc = "liked" => ~likedSongsCache.has
        /\ (persResult' # persResult /\ persResult'.fetched /\ likedSongsCache.has)
           => /\ persResult'.likedOwner = likedCacheOwner
              /\ \A i \in 1..Len(persResult'.songs) :
                    persResult'.songs[i].isLiked
                       = (persResult'.songs[i].file_id \in likedSongsCache.val)
        /\ (persResult' # persResult /\ persResult'.warm
               /\ songsCache.has /\ likedSongsCache.has)
           => /\ persResult'.queries \cap {"songs", "liked"} = {}
              /\ \A i \in 1..Len(persResult'.songs) :
                    \E k \in 1..Len(songsCache.val) :
                       songsCache.val[k].file_id = persResult'.songs[i].file_id
      ]_vars

\* A batch call invoked with both caches populated returned without any query.
C16_Witness ==
    /\ persResult.fetched /\ persResult.warm /\ persResult.mode = "batch"
    /\ persResult.queries = {}
    /\ Len(persResult.songs) > 0

----------------------------------------------------------------------------
(* View claims *)

\* A loadData run has just returned, with or without a failed remote read.
Loaded(outcome) == viewStep.kind = "loaded" /\ viewStep.outcome = outcome

Popularity(song) == song.views + song.likes
PositionIn(all, song) == CHOOSE i \in 1..Len(all) : all[i].file_id = song.file_id
Listed(list) == {list[i].file_id : i \in 1..Len(list)}

\* C11: when a loadData run returns without a failed read, the trending view
\* holds min(15, catalog size) songs of the songs view, in non-increasing
\* views + likes with equal sums in catalog order, and no song left out has a
\* larger sum than a listed one.
C11_TrendingTopFifteen ==
    Loaded("ok") =>
        /\ Len(trendingSongs) = Min(15, Len(songs))
        /\ \A i \in 1..Len(trendingSongs) : \E j \in 1..Len(songs) : songs[j] = trendingSongs[i]
        /\ \A i, j \in 1..Len(trendingSongs) :
              i < j =>
                 \/ Popularity(trendingSongs[i]) > Popularity(trendingSongs[j])
                 \/ /\ Popularity(trendingSongs[i]) = Popularity(trendingSongs[j])
                    /\ PositionIn(songs, trendingSongs[i]) < PositionIn(songs, trendingSongs[j])
        /\ \A j \in 1..Len(songs), i \in 1..Len(trendingSongs) :
              songs[j].file_id \notin Listed(trendingSongs)
                 => Popularity(songs[j]) <= Popularity(trendingSongs[i])

\* A run over the large table has returned: fifteen of seventeen songs listed,
\* two of them with equal sums.
C11_Witness ==
    /\ Loaded("ok")
    /\ Len(songs) > 15
    /\ Len(trendingSongs) = 15
    /\ \E i \in 1..14 : Popularity(trendingSongs[i]) = Popularity(trendingSongs[i + 1])

\* C14: when a loadData run returns after one of its remote reads failed, the
\* songs, personalized, trending and last played views are all empty.
C14_FailedReadEmptiesViews ==
    Loaded("error") =>
        /\ songs = << >>
        /\ personalizedSongs = << >>
        /\ trendingSongs = << >>
        /\ lastPlayedSong = << >>

\* C20: when a loadData run returns, no song of the personalized view has a row
\* in the user's remote history.
C20_PersonalizedExcludesHistory ==
    (viewStep.kind = "loaded" /\ propUser # NoUser) =>
        \A i \in 1..Len(personalizedSongs) : dbHistory[personalizedSongs[i].file_id] = 0

\* A toggleLike has just returned after both of its remote calls.
Toggled == viewStep'.kind = "toggled" /\ viewCalls' # viewCalls

\* C13: when a toggleLike(s) returns that was invoked on the views the previous
\* toggleLike(s) left, and nothing has changed them since, the songs, the
\* playlists and the liked set are again what they were before the previous one.
C13_ToggleTwiceRestores ==
    [][(/\ Toggled
        /\ lastToggle.done
        /\ lastToggle'.song = lastToggle.song
        /\ lastToggle'.before = lastToggle.after
        /\ LikeViews = lastToggle.after)
          => LikeViews' = lastToggle.before]_vars

----------------------------------------------------------------------------
(* Playlist claims *)

MutationKinds == {"create", "delete", "rename", "add", "remove"}

\* A playlist mutation is invoked / its remote call settles with the outcome.
MutationInvoked ==
    /\ viewStep'.kind = "invoked"
    /\ \E c \in viewCalls' \ viewCalls : c.kind \in MutationKinds
MutationSettled(outcome) ==
    /\ viewStep'.kind \in MutationKinds
    /\ viewStep'.outcome = outcome
    /\ \E c \in viewCalls \ viewCalls' : c.kind = viewStep'.kind

\* C15: invoking a playlist mutation leaves the local playlists alone; a remote
\* call that fails leaves both the local and the remote playlists as they were;
\* and between fetches the local playlists change only in the step where the
\* remote call of a mutation has succeeded.
C15_RemoteFirstThenLocal ==
    [][/\ MutationInvoked => playlists' = playlists /\ dbPlaylists' = dbPlaylists
       /\ MutationSettled("error") => playlists' = playlists /\ dbPlaylists' = dbPlaylists
       /\ (playlists' # playlists /\ viewStep'.kind \notin {"playlists", "reset"})
             => MutationSettled("ok")]_vars

\* addSongToPlaylist has succeeded: the song is in the remote rows and in the
\* local playlist, which was fetched before.
C15_Witness ==
    /\ viewStep.kind = "add" /\ viewStep.outcome = "ok"
    /\ \E i \in 1..Len(playlists) :
          /\ playlists[i].songCount = 3
          /\ playlists[i].songs[3].file_id = 12
    /\ \E i \in 1..Len(dbPlaylists) : dbPlaylists[i].songs = <<2, 1, 12>>

----------------------------------------------------------------------------
(* Liked-set cache claims *)

\* C17: when a toggleLike(s) returns after its remote calls, and the populated
\* liked-songs cache agreed with the liked set on s before, the cache agrees with
\* the liked set on s after: s is cached as liked exactly when it is now liked.
C17_CacheFollowsToggle ==
    [][(/\ Toggled
        /\ likedSongsCache.has
        /\ lastToggle'.song \in likedSongsCache.val <=> lastToggle'.song \in likedSongs)
          => (lastToggle'.song \in likedSongsCache'.val <=> lastToggle'.song \in likedSongs')]_vars

----------------------------------------------------------------------------
(* Overlapping loadData runs *)

\* The effect of lines 984-1024 runs again whenever the `user` object changes,
\* whether or not the earlier run has returned.
InitOverlap ==
    /\ storage = 1
    /\ InitDataVars(<<SongA, SongB>>)
    /\ InitAuthVars(storage)
    /\ InitTrackerOver(NoUser, ListenedBefore, 2)
    /\ InitViewVars(RemotePlaylists)
NextOverlap ==
    \/ viewCount < MaxOverlap /\ LoadData(1)
    \/ FetchStep
SpecOverlap == InitOverlap /\ [][NextOverlap]_vars

\* A fetch of some loadData run is suspended at one of its reads.
FetchInFlight == \E c \in viewCalls : c.kind \in {"songs", "playlists", "recent"}

\* C21: once a loadData run has been started, loading is false only when no
\* fetch of any started run is still in flight, also when a second run starts
\* before the first has returned.
C21_LoadingFalseAfterAllSettled ==
    (viewCount > 0 /\ ~dataLoading) => ~FetchInFlight

----------------------------------------------------------------------------
(* useAuth claims: the race of the initial session check *)

SessionKinds == {"session", "none", "error", "reject"}

\* C22: of the answer of getSession() and the timeout, the one that settles
\* first decides the initial check (while mounted it ends the loading, a session
\* becomes the session identity, a failure leaves no session identity); the
\* settlement of the other one afterwards changes neither the session identity
\* nor the local identity, in memory or in localStorage, nor loading.
C22_FirstSettlementDecides ==
    [][ /\ (AuthStepped /\ authStep'.kind \in SessionKinds /\ timer = "fired")
           => UNCHANGED <<user, localUserData, storage, loading>>
        /\ (AuthStepped /\ authStep'.kind = "timeout" /\ sessionPromise # PendingSession)
           => UNCHANGED <<user, localUserData, storage, loading>>
        /\ (AuthStepped /\ mounted /\ authStep'.kind \in SessionKinds /\ timer = "armed")
           => /\ loading' = FALSE
              /\ authStep'.kind = "session" => user' = authStep'.session
              /\ authStep'.kind \in {"error", "reject"} => user' = NoUser
        /\ (AuthStepped /\ mounted /\ authStep'.kind = "timeout"
                /\ sessionPromise = PendingSession)
           => loading' = FALSE /\ user' = NoUser
      ]_vars

\* The timeout decided the check over the local identity 1; the session of user
\* 2 that getSession() delivers afterwards is dropped.
C22_Witness ==
    /\ authStep.kind = "session" /\ authStep.session = 2 /\ ~authStep.live
    /\ timer = "fired" /\ mounted /\ ~interfered
    /\ user = NoUser /\ localUserData = 1 /\ storage = 1 /\ ~loading

----------------------------------------------------------------------------
(* Tracker claims: stop against a start that is still flushing *)

\* No current song and no start timestamp, the queued state update counted in.
TrackerIdle ==
    /\ currentSongRef = NoSong
    /\ (IF startTimeUpdate.set THEN startTimeUpdate.val ELSE currentSongStartTime) = NoTime

\* stopCurrentSongTracking() reaches its end in this step: at its invocation when
\* it has nothing to flush, else when its flush settles.
StopCompletes ==
    \/ StopInvoked /\ trackerCalls' = trackerCalls
    \/ \E c \in trackerCalls \ trackerCalls' : c.op = "stop"

\* C23: when stop() completes the tracker is idle, whatever the outcome of its
\* flush, and an idle tracker leaves that state only in a step that invokes
\* start, also when the stop was invoked while a start was awaiting its flush.
C23_IdleAfterStop ==
    [][ /\ StopCompletes => TrackerIdle'
        /\ (TrackerIdle /\ ~TrackerIdle') => StartInvoked
      ]_vars

----------------------------------------------------------------------------
(* The playlists under fetches, mutations and toggleLike together *)

InitProjections == InitPlaylists
NextProjections ==
    \/ viewCalls = {} /\ LoadData(NoUser)
    \/ FetchStep
    \/ PlaylistStep({"q"}, {ConvertDatabaseSong(SongC, FALSE)}, {ToStr(2)}, viewCalls = {})
    \/ ToggleStep({ToStr(2)}, viewCalls = {})
SpecProjections == InitProjections /\ [][NextProjections]_vars

\* C24: every local playlist has songCount equal to the length of its song
\* list, and as image the image of its first song, or the default image when
\* it has no songs; fetch, create, add, remove, rename, delete and toggleLike
\* keep it so.
C24_DerivedCountAndCover ==
    \A i \in 1..Len(playlists) :
        /\ playlists[i].songCount = Len(playlists[i].songs)
        /\ playlists[i].image = IF playlists[i].songs = << >> THEN DefaultImage
                                ELSE playlists[i].songs[1].image

\* Song 2, the first of the fetched playlist, has been removed: the playlist
\* counts one song and shows the image of song 1.
C24_Witness ==
    /\ viewStep.kind = "remove" /\ viewStep.outcome = "ok"
    /\ Len(playlists) = 1
    /\ playlists[1].songCount = 1
    /\ playlists[1].songs[1].file_id = 1
    /\ playlists[1].image = <<"pexels-photo", 101>>

----------------------------------------------------------------------------
(* toggleLike claims: failed remote writes *)

\* A remote write of toggleLike has failed in this step: the delete or insert
\* on liked_songs, or the rpc that moves the like counter.
ToggleWriteFailed ==
    /\ viewStep'.kind \in {"toggleWrite", "toggled"}
    /\ viewStep'.outcome = "error"
    /\ viewCalls' # viewCalls

\* C25: when a remote write of toggleLike fails, the liked set and the liked
\* flag and like count of every song, in the songs view and in the playlists,
\* are left as they were.
C25_FailedWriteLeavesViews ==
    [][ToggleWriteFailed => UNCHANGED LikeViews]_vars

----------------------------------------------------------------------------
(* The liked flags that loadData materializes *)

\* Every song of the list is flagged as liked exactly when it is in the set.
FlagsAgree(list, liked) ==
    \A i \in 1..Len(list) : list[i].isLiked <=> list[i].file_id \in liked

\* C26: when a loadData run has returned with all its reads answered, and the
\* user is still there, every song of the songs view and every song of every
\* playlist carries the liked flag exactly when its id is in the user's liked
\* set of the remote store, as that run has read it.
C26_LoadedFlagsFollowRemote ==
    (Loaded("ok") /\ GetUserId # NoUser) =>
        /\ FlagsAgree(songs, dbLiked[GetUserId])
        /\ \A i \in 1..Len(playlists) : FlagsAgree(playlists[i].songs, dbLiked[GetUserId])

----------------------------------------------------------------------------
(* useAuth claims: one user under every resolution order *)

\* useSupabaseData's getUserId (lines 24-46) in a hook that is given the
\* session user of useAuth: the session user first, then localStorage.
GetUserIdOfSession(sessionUser) == IF sessionUser # NoUser THEN sessionUser ELSE storage

\* C27: a session identity and a local identity that are both present are of
\* the same user, so that the effective user (session first), useAuth's
\* getUserId (local first) and useSupabaseData's getUserId (session, then
\* localStorage) name the same user.
C27_OneIdentity ==
    /\ (user # NoUser /\ localUserData # NoUser) => user = localUserData
    /\ AuthGetUserId = EffectiveUser
    /\ GetUserIdOfSession(user) = EffectiveUser

----------------------------------------------------------------------------
(* useAuth claims: the local identity in memory and in localStorage *)

\* Nothing of useAuth is pending: the race of the initial check is decided and
\* no signOut() awaits the provider.
AuthQuiet ==
    /\ sessionPromise # PendingSession \/ timer = "fired"
    /\ ~signOutPending

\* C28: once every pending identity event has been handled, the local identity
\* in memory is the persisted one: present exactly when localStorage holds a
\* record, and of the same user.
C28_MemoryMatchesStorage ==
    AuthQuiet => localUserData = storage

\* C29: when the latest identity event handled is a SIGNED_IN notification for
\* user u, an initial session check that fails afterwards (error result,
\* rejection or timeout) leaves the resolver authenticated with u as the
\* effective identity.
C29_SignedInOutlivesFailedCheck ==
    [][ (authStep.kind = "SIGNED_IN" /\ AuthStepped
            /\ authStep'.kind \in {"timeout", "error", "reject"})
        => /\ IsAuthenticated'
           /\ EffectiveUser' = authStep.session
      ]_vars

\* C30: when signOut() returns, whether the provider's signOut succeeded,
\* returned an error or threw, the session identity and the local identity, in
\* memory and in localStorage, are none, isAuthenticated is false and loading
\* is false.
C30_SignOutClearsAlways ==
    [][ (AuthStepped /\ authStep'.kind = "signOutDone")
        => /\ user' = NoUser
           /\ localUserData' = NoUser
           /\ storage' = NoUser
           /\ ~IsAuthenticated'
           /\ loading' = FALSE
      ]_vars

----------------------------------------------------------------------------
(* A change of the user during a loadData run *)

\* The hook is given user 1 and then user 2; the effect of lines 984-1024 runs
\* loadData for each, whether or not the earlier run has returned.
InitSwitch ==
    /\ storage = NoUser
    /\ InitDataVars(<<SongA, SongB>>)
    /\ InitAuthVars(storage)
    /\ InitTrackerOver(NoUser, ListenedBefore, 2)
    /\ InitViewVars(RemotePlaylists)
NextSwitch ==
    \/ \E u \in Users : u = viewCount + 1 /\ viewCount < MaxOverlap /\ LoadData(u)
    \/ FetchStep
SpecSwitch == InitSwitch /\ [][NextSwitch]_vars

\* The lists and the liked set a consumer of the hook is shown.
ShownViews == <<songs, personalizedSongs, trendingSongs, playlists, recentlyPlayedSongs,
                lastPlayedSong, likedSongs>>

\* A read of a fetch settles in this step, and the loadData run it belongs to
\* was started for another user than the one the hook has now.
StaleFetchSettles ==
    /\ viewCalls' # viewCalls
    /\ viewStep'.kind \in {"songs", "liked", "history", "user", "playlists", "recent",
                           "recentLiked"}
    /\ \E c \in viewCalls : c.n = viewStep'.n /\ c.userId # GetUserId

\* C31: once loadData has started for user u2, a fetch that was started for u1
\* writes none of the views, so that when every fetch has settled the views
\* show the data of u2 only.
C31_StaleFetchWritesNothing ==
    [][StaleFetchSettles => UNCHANGED ShownViews]_vars

----------------------------------------------------------------------------
(* The liked flags of the songs view against the liked set *)

\* C32: whenever no fetch and no toggleLike is in flight, a song of the songs
\* view carries the liked flag exactly when its id is in the likedSongs set,
\* also after a loadData run whose liked_songs read has failed.
C32_SongFlagsMatchLikedSet ==
    viewCalls = {} => FlagsAgree(songs, likedSongs)

----------------------------------------------------------------------------
(* Tracker claims: one flush per listening interval *)

\* The milliseconds flushed for a song, over all the flushes issued so far.
RECURSIVE FlushedFor(_, _)
FlushedFor(log, song) ==
    IF log = << >> THEN 0
    ELSE (IF Head(log).song = song THEN Head(log).elapsed ELSE 0)
             + FlushedFor(Tail(log), song)

\* C33: a listening interval is flushed at most once, also when stop() or
\* another start() is invoked while a start() awaits its flush: the time
\* flushed for a song never exceeds the time the song has been the current
\* one, which is at most the time that has passed.
C33_FlushedAtMostOnce ==
    \A song \in SongIds : FlushedFor(flushLog, song) <= now

----------------------------------------------------------------------------
(* Cache claims: what populates the caches *)

\* C34: the caches are populated by successful remote reads only: a populated
\* songs cache holds the rows of the songs table, which are not none, and a
\* populated liked-set cache holds the liked_songs rows of the user it was
\* read for.  A read that failed leaves its cache unpopulated, so that the
\* next personalization call queries again.
C34_CachesFromSuccessfulReads ==
    /\ songsCache.has => (songsCache.val = dbSongs /\ dbSongs # << >>)
    /\ likedSongsCache.has => likedSongsCache.val = dbLiked[likedCacheOwner]

====
